---- MODULE Spec2Model ----
(***************************************************************************)
(* Supply-chain contract evaluation engine (src/app.py).                   *)
(*                                                                         *)
(* Numbers.  The program computes in binary floating point; the model      *)
(* computes in exact rational arithmetic.  A rational is a pair <<n, d>>   *)
(* in lowest terms with d > 0, so equal values are equal pairs.  Rounding  *)
(* of the floating-point operations is outside the model.                  *)
(*                                                                         *)
(* State.  One request of the application is modelled: pc is the position  *)
(* of the request ("start" before the handler ran, "done" after), call is  *)
(* the last evaluation-function call with its arguments and return value,  *)
(* inputs are the widget values read by a contract handler, demand_model   *)
(* is the DemandModel built by demand_handler (or None), result is the     *)
(* bundle returned by the contract handler (or None) and log lists the     *)
(* evaluation functions the handler invoked, in order.  cache holds the    *)
(* entries of the two lru_cache memo tables of the process.                *)
(***************************************************************************)
EXTENDS Integers, Sequences, FiniteSets, TLC

VARIABLES pc, call, inputs, demand_model, result, log, cache

vars == <<pc, call, inputs, demand_model, result, log, cache>>

\* Python's None, where a DemandModel or a result bundle is expected
None == [none |-> TRUE]

\* ------------------------------------------------------------------------
\* Bounds of the model

\* per-unit cost rates range over 0..MaxRate
MaxRate == 1
\* order quantities and demands range over the multiples of QtyStep up to
\* QtyStep * MaxQtySteps, plus the values of the documented examples
MaxQtySteps == 3

\* ------------------------------------------------------------------------
\* Exact rational arithmetic

Abs(n) == IF n < 0 THEN -n ELSE n

RECURSIVE GCD(_, _)
GCD(a, b) == IF b = 0 THEN a ELSE GCD(b, a % b)

\* n / d in lowest terms, d # 0
Frac(n, d) ==
    LET s == IF d < 0 THEN -1 ELSE 1
        g == GCD(Abs(n), Abs(d))
    IN  <<(s * n) \div g, (s * d) \div g>>

RInt(n) == <<n, 1>>
Zero == RInt(0)
One == RInt(1)

RAdd(a, b) ==
    LET g == GCD(a[2], b[2])
        l == (a[2] \div g) * b[2]
    IN  Frac(a[1] * (l \div a[2]) + b[1] * (l \div b[2]), l)

RNeg(a) == <<-a[1], a[2]>>
RSub(a, b) == RAdd(a, RNeg(b))

RMul(a, b) ==
    LET g1 == GCD(Abs(a[1]), b[2])
        g2 == GCD(Abs(b[1]), a[2])
    IN  IF a[1] = 0 \/ b[1] = 0 THEN Zero
        ELSE <<(a[1] \div g1) * (b[1] \div g2), (a[2] \div g2) * (b[2] \div g1)>>

\* a / b, b # 0
RDiv(a, b) == RMul(a, Frac(b[2], b[1]))

RAbs(a) == <<Abs(a[1]), a[2]>>

\* comparison over the least common denominator
RLe(a, b) == LET g == GCD(a[2], b[2]) IN a[1] * (b[2] \div g) <= b[1] * (a[2] \div g)
RLt(a, b) == LET g == GCD(a[2], b[2]) IN a[1] * (b[2] \div g) < b[1] * (a[2] \div g)
RMax(a, b) == IF RLt(a, b) THEN b ELSE a
RMin(a, b) == IF RLt(b, a) THEN b ELSE a

\* np.clip(v, lo, hi)
Clip(v, lo, hi) == RMin(RMax(v, lo), hi)

\* v <= EPS, EPS = 1e-9.  Every value the model forms is a rational with a
\* denominator far below 1e9, so it is <= 1e-9 exactly when it is <= 0.
LeEPS(v) == v[1] <= 0

\* ------------------------------------------------------------------------
\* Cost mappings: a function from some of the recognised keys to a rate

CostKeys == {"salvage", "holding", "shortage", "penalty"}

Rates == 0..MaxRate

CostMaps == UNION {[S -> Rates] : S \in SUBSET CostKeys}

NoCosts == [k \in {} |-> 0]

\* costs.get(key, 0.0)
CostGet(costs, key) == IF key \in DOMAIN costs THEN RInt(costs[key]) ELSE Zero

\* ------------------------------------------------------------------------
\* Numeric primitives

\* clamp with the roles of min and max exchanged
clamp_swapped(value, low, high) == RMin(low, RMax(value, high))

\* clamp(value, low, high) = max(low, min(value, high))
clamp(value, low, high) == RMax(low, RMin(value, high))

\* inventory_stats with leftover and unmet exchanged
inventory_stats_swapped(order_qty, demand) ==
    LET sales == RMin(order_qty, demand)
        leftover == RMax(RSub(demand, order_qty), Zero)
        unmet == RMax(RSub(order_qty, demand), Zero)
        service_level == IF LeEPS(demand) THEN One
                         ELSE Clip(RDiv(sales, demand), Zero, One)
    IN  [sales |-> sales, leftover |-> leftover, unmet |-> unmet,
         service_level |-> service_level]

inventory_stats(order_qty, demand) ==
    LET sales == RMin(order_qty, demand)
        leftover == RMax(RSub(order_qty, demand), Zero)
        unmet == RMax(RSub(demand, order_qty), Zero)
        service_level == IF LeEPS(demand) THEN One
                         ELSE Clip(RDiv(sales, demand), Zero, One)
    IN  [sales |-> sales, leftover |-> leftover, unmet |-> unmet,
         service_level |-> service_level]

\* inventory_adjustment whose net leaves the penalty out
inventory_adjustment_no_penalty(leftover, unmet, costs) ==
    LET salvage == RMul(CostGet(costs, "salvage"), leftover)
        holding == RMul(CostGet(costs, "holding"), leftover)
        shortage == RMul(CostGet(costs, "shortage"), unmet)
        penalty == RMul(CostGet(costs, "penalty"), unmet)
        net == RSub(RSub(salvage, holding), shortage)
    IN  [salvage |-> salvage, holding |-> holding, shortage |-> shortage,
         penalty |-> penalty, net |-> net]

inventory_adjustment(leftover, unmet, costs) ==
    LET salvage == RMul(CostGet(costs, "salvage"), leftover)
        holding == RMul(CostGet(costs, "holding"), leftover)
        shortage == RMul(CostGet(costs, "shortage"), unmet)
        penalty == RMul(CostGet(costs, "penalty"), unmet)
        net == RSub(RSub(RSub(salvage, holding), shortage), penalty)
    IN  [salvage |-> salvage, holding |-> holding, shortage |-> shortage,
         penalty |-> penalty, net |-> net]

\* ------------------------------------------------------------------------
\* Deterministic contract evaluators

\* wholesale profit that pays the wholesale price on the units sold only
wholesale_profit_pays_sales(order_qty, demand, retail_price, wholesale_price, costs) ==
    LET s == inventory_stats(order_qty, demand)
        adjust == inventory_adjustment(s.leftover, s.unmet, costs)
    IN  RAdd(RSub(RMul(retail_price, s.sales), RMul(wholesale_price, s.sales)),
             adjust.net)

wholesale_profit_deterministic(order_qty, demand, retail_price, wholesale_price, costs) ==
    LET s == inventory_stats(order_qty, demand)
        adjust == inventory_adjustment(s.leftover, s.unmet, costs)
    IN  RAdd(RSub(RMul(retail_price, s.sales), RMul(wholesale_price, order_qty)),
             adjust.net)

\* buyback profits whose manufacturer share deducts the production cost
buyback_profit_deducts_production(order_qty, demand, retail_price, wholesale_price, buyback_price, production_cost, costs) ==
    LET s == inventory_stats(order_qty, demand)
        adjust == inventory_adjustment(s.leftover, s.unmet, costs)
        retailer == RAdd(RSub(RAdd(RMul(retail_price, s.sales),
                                   RMul(buyback_price, s.leftover)),
                              RMul(wholesale_price, order_qty)),
                         adjust.net)
        manufacturer == RSub(RSub(RMul(wholesale_price, order_qty),
                                  RMul(buyback_price, s.leftover)),
                             RMul(production_cost, order_qty))
        total == RAdd(RSub(RMul(retail_price, s.sales),
                           RMul(production_cost, order_qty)),
                      adjust.net)
    IN  <<retailer, manufacturer, total>>

buyback_profit_deterministic(order_qty, demand, retail_price, wholesale_price, buyback_price, production_cost, costs) ==
    LET s == inventory_stats(order_qty, demand)
        adjust == inventory_adjustment(s.leftover, s.unmet, costs)
        retailer == RAdd(RSub(RAdd(RMul(retail_price, s.sales),
                                   RMul(buyback_price, s.leftover)),
                              RMul(wholesale_price, order_qty)),
                         adjust.net)
        manufacturer == RSub(RMul(wholesale_price, order_qty),
                             RMul(buyback_price, s.leftover))
        total == RAdd(RSub(RMul(retail_price, s.sales),
                           RMul(production_cost, order_qty)),
                      adjust.net)
    IN  <<retailer, manufacturer, total>>

\* revenue sharing whose retailer keeps the share alpha instead of 1 - alpha
revenue_sharing_profit_share_swapped(order_qty, demand, retail_price, wholesale_price, alpha, costs) ==
    LET s == inventory_stats(order_qty, demand)
        adjust == inventory_adjustment(s.leftover, s.unmet, costs)
        retailer == RAdd(RSub(RMul(RMul(alpha, retail_price), s.sales),
                              RMul(wholesale_price, order_qty)),
                         adjust.net)
        supplier == RAdd(RMul(RMul(RSub(One, alpha), retail_price), s.sales),
                         RMul(wholesale_price, order_qty))
        total == RAdd(retailer, supplier)
    IN  <<retailer, supplier, total>>

revenue_sharing_profit_deterministic(order_qty, demand, retail_price, wholesale_price, alpha, costs) ==
    LET s == inventory_stats(order_qty, demand)
        adjust == inventory_adjustment(s.leftover, s.unmet, costs)
        retailer == RAdd(RSub(RMul(RMul(RSub(One, alpha), retail_price), s.sales),
                              RMul(wholesale_price, order_qty)),
                         adjust.net)
        supplier == RAdd(RMul(RMul(alpha, retail_price), s.sales),
                         RMul(wholesale_price, order_qty))
        total == RAdd(retailer, supplier)
    IN  <<retailer, supplier, total>>

\* option cost that exercises already when spot = strike
option_cost_exercise_at_strike(demand, option_qty, strike, premium, spot) ==
    LET should_exercise == RLe(strike, spot)
        exercised == IF should_exercise THEN RMin(demand, option_qty) ELSE Zero
        total_cost ==
            IF should_exercise
            THEN RAdd(RAdd(RMul(option_qty, premium), RMul(exercised, strike)),
                      RMul(RMax(RSub(demand, exercised), Zero), spot))
            ELSE RAdd(RMul(option_qty, premium), RMul(demand, spot))
        spot_only == RMul(demand, spot)
    IN  [should_exercise |-> IF should_exercise THEN One ELSE Zero,
         exercised_qty |-> exercised,
         total_cost |-> total_cost,
         spot_only_cost |-> spot_only]

option_cost_deterministic(demand, option_qty, strike, premium, spot) ==
    LET should_exercise == RLt(strike, spot)
        exercised == IF should_exercise THEN RMin(demand, option_qty) ELSE Zero
        total_cost ==
            IF should_exercise
            THEN RAdd(RAdd(RMul(option_qty, premium), RMul(exercised, strike)),
                      RMul(RMax(RSub(demand, exercised), Zero), spot))
            ELSE RAdd(RMul(option_qty, premium), RMul(demand, spot))
        spot_only == RMul(demand, spot)
    IN  [should_exercise |-> IF should_exercise THEN One ELSE Zero,
         exercised_qty |-> exercised,
         total_cost |-> total_cost,
         spot_only_cost |-> spot_only]

quantity_flex_deterministic(demand, initial_commitment, adjustment_pct, wholesale_price, costs) ==
    LET span == RDiv(adjustment_pct, RInt(100))
        lower == RMax(Zero, RMul(initial_commitment, RSub(One, span)))
        upper == RMul(initial_commitment, RAdd(One, span))
        final_order == clamp(demand, lower, upper)
        unmet == RMax(RSub(demand, final_order), Zero)
        overstock == RMax(RSub(final_order, demand), Zero)
        procurement == RMul(final_order, wholesale_price)
        total1 == RAdd(procurement, RMul(CostGet(costs, "holding"), overstock))
        total2 == RAdd(total1,
                       RMul(RAdd(CostGet(costs, "shortage"), CostGet(costs, "penalty")),
                            unmet))
        total_cost == RSub(total2, RMul(CostGet(costs, "salvage"), overstock))
        service_level == IF LeEPS(demand) THEN One
                         ELSE Clip(RDiv(RSub(demand, unmet), demand), Zero, One)
    IN  [lower |-> lower, upper |-> upper, final_order |-> final_order,
         unmet |-> unmet, overstock |-> overstock,
         procurement_cost |-> procurement, total_cost |-> total_cost,
         service_level |-> service_level]

\* ------------------------------------------------------------------------
\* Inputs of the evaluation functions

\* order quantities and demand realisations
Quantities == {20 * k : k \in 0..MaxQtySteps} \cup {80, 100, 120, 130}

\* revenue share ratios alpha in [0, 1]
Alphas == {Zero, Frac(3, 10), One}

\* adjustment range in percent, 0..100
AdjustmentPcts == {0, 20, 50, 100}

NoCall == [op |-> "none", args |-> <<>>, ret |-> None]

\* the two memo tables, empty when the process starts
NoEntries == [sales |-> <<>>, demand |-> <<>>]

Init ==
    /\ pc = "start"
    /\ call = NoCall
    /\ inputs = None
    /\ demand_model = None
    /\ result = None
    /\ log = <<>>
    /\ cache = NoEntries

\* a call returns: it is recorded and leaves the request's own state alone
Returned(op, args, ret) ==
    /\ pc' = "done"
    /\ call' = [op |-> op, args |-> args, ret |-> ret]
    /\ UNCHANGED <<inputs, demand_model, result, log, cache>>

InventoryStats ==
    /\ pc = "start"
    /\ \E Q \in Quantities, D \in Quantities :
        Returned("inventory_stats", <<Q, D>>, inventory_stats(RInt(Q), RInt(D)))

InventoryAdjustment ==
    /\ pc = "start"
    /\ \E leftover \in Quantities, unmet \in Quantities, costs \in CostMaps :
        Returned("inventory_adjustment", <<leftover, unmet, costs>>,
                 inventory_adjustment(RInt(leftover), RInt(unmet), costs))

WholesaleProfitDeterministic ==
    /\ pc = "start"
    /\ \E Q \in Quantities, D \in Quantities, p \in {0, 150}, w \in {0, 90},
       costs \in CostMaps :
        Returned("wholesale_profit_deterministic", <<Q, D, p, w, costs>>,
                 wholesale_profit_deterministic(RInt(Q), RInt(D), RInt(p), RInt(w), costs))

BuybackProfitDeterministic ==
    /\ pc = "start"
    /\ \E Q \in Quantities, D \in Quantities, p \in {150}, w \in {95},
       b \in {0, 40}, c \in {60, 95}, costs \in CostMaps :
        Returned("buyback_profit_deterministic", <<Q, D, p, w, b, c, costs>>,
                 buyback_profit_deterministic(RInt(Q), RInt(D), RInt(p), RInt(w),
                                              RInt(b), RInt(c), costs))

RevenueSharingProfitDeterministic ==
    /\ pc = "start"
    /\ \E Q \in Quantities, D \in Quantities, p \in {160}, w \in {0, 80},
       alpha \in Alphas, costs \in CostMaps :
        Returned("revenue_sharing_profit_deterministic", <<Q, D, p, w, alpha, costs>>,
                 revenue_sharing_profit_deterministic(RInt(Q), RInt(D), RInt(p),
                                                      RInt(w), alpha, costs))

OptionCostDeterministic ==
    /\ pc = "start"
    /\ \E D \in Quantities, option_qty \in Quantities, strike \in {0, 95},
       premium \in {0, 12}, spot \in {0, 95, 107, 110} :
        Returned("option_cost_deterministic", <<D, option_qty, strike, premium, spot>>,
                 option_cost_deterministic(RInt(D), RInt(option_qty), RInt(strike),
                                           RInt(premium), RInt(spot)))

QuantityFlexDeterministic ==
    /\ pc = "start"
    /\ \E D \in Quantities, Q0 \in Quantities, adj \in AdjustmentPcts, w \in {0, 92},
       costs \in CostMaps :
        Returned("quantity_flex_deterministic", <<D, Q0, adj, w, costs>>,
                 quantity_flex_deterministic(RInt(D), RInt(Q0), RInt(adj), RInt(w), costs))

NextEval ==
    \/ InventoryStats
    \/ InventoryAdjustment
    \/ WholesaleProfitDeterministic
    \/ BuybackProfitDeterministic
    \/ RevenueSharingProfitDeterministic
    \/ OptionCostDeterministic
    \/ QuantityFlexDeterministic

\* the evaluation functions applied to inputs drawn from the sets above
SpecEval == Init /\ [][NextEval]_vars

\* ------------------------------------------------------------------------
\* Properties of the evaluation functions, stated in integer arithmetic on
\* the arguments of the recorded call

IMin(a, b) == IF a <= b THEN a ELSE b
IMax(a, b) == IF a >= b THEN a ELSE b

\* the rate a cost mapping gives a key, 0 for a key it does not hold
Rate(costs, key) == IF key \in DOMAIN costs THEN costs[key] ELSE 0

\* salvage - holding - shortage - penalty for integer leftover and unmet
NetAdj(leftover, unmet, costs) ==
    Rate(costs, "salvage") * leftover - Rate(costs, "holding") * leftover
    - Rate(costs, "shortage") * unmet - Rate(costs, "penalty") * unmet

\* empty or all-zero cost mapping
ZeroCosts(costs) == \A k \in DOMAIN costs : costs[k] = 0

Called(op) == pc = "done" /\ call.op = op

\* C1: inventory_stats(Q, D) returns sales = min(Q, D), leftover =
\* max(Q - D, 0), unmet = max(D - Q, 0); so sales + leftover = Q, sales +
\* unmet = D, and exactly one of leftover and unmet is non-zero unless
\* Q = D, when both are zero.
C1_InventoryStats ==
    Called("inventory_stats") =>
        LET Q == call.args[1]
            D == call.args[2]
            r == call.ret
        IN  /\ r.sales = RInt(IMin(Q, D))
            /\ r.leftover = RInt(IMax(Q - D, 0))
            /\ r.unmet = RInt(IMax(D - Q, 0))
            /\ RAdd(r.sales, r.leftover) = RInt(Q)
            /\ RAdd(r.sales, r.unmet) = RInt(D)
            /\ (Q # D => ((r.leftover # Zero) # (r.unmet # Zero)))
            /\ (Q = D => (r.leftover = Zero /\ r.unmet = Zero))

C1_Witness ==
    /\ Called("inventory_stats")
    /\ call.args = <<100, 80>>
    /\ call.ret.leftover = RInt(20)
    /\ call.ret.unmet = Zero

\* C2: inventory_adjustment returns each term as rate times quantity, a key
\* absent from costs counting as rate 0, and net = salvage - holding -
\* shortage - penalty; with an empty or all-zero cost mapping net = 0 and
\* the wholesale, buyback and revenue-sharing profits are their base
\* formulas.
C2_InventoryAdjustment ==
    /\ Called("inventory_adjustment") =>
        LET leftover == call.args[1]
            unmet == call.args[2]
            costs == call.args[3]
            r == call.ret
        IN  /\ r.salvage = RInt(Rate(costs, "salvage") * leftover)
            /\ r.holding = RInt(Rate(costs, "holding") * leftover)
            /\ r.shortage = RInt(Rate(costs, "shortage") * unmet)
            /\ r.penalty = RInt(Rate(costs, "penalty") * unmet)
            /\ r.net = RInt(r.salvage[1] - r.holding[1] - r.shortage[1] - r.penalty[1])
            /\ (ZeroCosts(costs) => r.net = Zero)
    /\ (Called("wholesale_profit_deterministic") /\ ZeroCosts(call.args[5])) =>
        LET Q == call.args[1]
            sales == IMin(Q, call.args[2])
            p == call.args[3]
            w == call.args[4]
        IN  call.ret = RInt(p * sales - w * Q)
    /\ (Called("buyback_profit_deterministic") /\ ZeroCosts(call.args[7])) =>
        LET Q == call.args[1]
            sales == IMin(Q, call.args[2])
            leftover == IMax(Q - call.args[2], 0)
            p == call.args[3]
            w == call.args[4]
            b == call.args[5]
            c == call.args[6]
        IN  call.ret = <<RInt(p * sales + b * leftover - w * Q),
                         RInt(w * Q - b * leftover),
                         RInt(p * sales - c * Q)>>
    /\ (Called("revenue_sharing_profit_deterministic") /\ ZeroCosts(call.args[6])) =>
        LET Q == call.args[1]
            sales == IMin(Q, call.args[2])
            p == call.args[3]
            w == call.args[4]
            an == call.args[5][1]
            ad == call.args[5][2]
        IN  call.ret = <<Frac((ad - an) * p * sales - ad * w * Q, ad),
                         Frac(an * p * sales + ad * w * Q, ad),
                         RInt(p * sales)>>

C2_Witness ==
    /\ Called("inventory_adjustment")
    /\ call.args = <<20, 40, [penalty |-> 1, salvage |-> 1]>>
    /\ call.ret.net = RInt(-20)

\* C3: wholesale_profit_deterministic returns p*min(Q, demand) - w*Q + net
\* adjustment; Q=100, demand=100, p=150, w=90 with no extra costs gives 6000.
C3_WholesaleDeterministic ==
    Called("wholesale_profit_deterministic") =>
        LET Q == call.args[1]
            D == call.args[2]
            p == call.args[3]
            w == call.args[4]
            costs == call.args[5]
        IN  /\ call.ret = RInt(p * IMin(Q, D) - w * Q
                               + NetAdj(IMax(Q - D, 0), IMax(D - Q, 0), costs))
            /\ (call.args = <<100, 100, 150, 90, NoCosts>> => call.ret = RInt(6000))

C3_Witness ==
    /\ Called("wholesale_profit_deterministic")
    /\ call.args = <<100, 100, 150, 90, NoCosts>>
    /\ call.ret = RInt(6000)

\* C4: buyback_profit_deterministic returns retailer = p*sales + b*leftover
\* - w*Q + net_adj, manufacturer = w*Q - b*leftover, total = p*sales - c*Q +
\* net_adj; Q=100, demand=80, p=150, w=95, b=40, c=95 with no extra costs
\* gives (3300, 8700, 2500).
C4_BuybackDeterministic ==
    Called("buyback_profit_deterministic") =>
        LET Q == call.args[1]
            D == call.args[2]
            p == call.args[3]
            w == call.args[4]
            b == call.args[5]
            c == call.args[6]
            costs == call.args[7]
            sales == IMin(Q, D)
            leftover == IMax(Q - D, 0)
            net == NetAdj(leftover, IMax(D - Q, 0), costs)
        IN  /\ call.ret[1] = RInt(p * sales + b * leftover - w * Q + net)
            /\ call.ret[2] = RInt(w * Q - b * leftover)
            /\ call.ret[3] = RInt(p * sales - c * Q + net)
            /\ (call.args = <<100, 80, 150, 95, 40, 95, NoCosts>>
                => call.ret = <<RInt(3300), RInt(8700), RInt(2500)>>)

C4_Witness ==
    /\ Called("buyback_profit_deterministic")
    /\ call.args = <<100, 80, 150, 95, 40, 95, NoCosts>>
    /\ call.ret = <<RInt(3300), RInt(8700), RInt(2500)>>

\* C5: for alpha in [0,1], revenue_sharing_profit_deterministic returns
\* retailer = (1-alpha)*p*sales - w*Q + net_adj, supplier = alpha*p*sales +
\* w*Q and total = retailer + supplier, with sales = min(Q, demand).
C5_RevenueSharingDeterministic ==
    Called("revenue_sharing_profit_deterministic") =>
        LET Q == call.args[1]
            D == call.args[2]
            p == call.args[3]
            w == call.args[4]
            an == call.args[5][1]
            ad == call.args[5][2]
            costs == call.args[6]
            sales == IMin(Q, D)
            net == NetAdj(IMax(Q - D, 0), IMax(D - Q, 0), costs)
        IN  /\ call.ret[1] = Frac((ad - an) * p * sales + ad * (net - w * Q), ad)
            /\ call.ret[2] = Frac(an * p * sales + ad * w * Q, ad)
            /\ call.ret[3] = RAdd(call.ret[1], call.ret[2])
            /\ call.ret[3] = RInt(p * sales + net)

C5_Witness ==
    /\ Called("revenue_sharing_profit_deterministic")
    /\ call.args = <<100, 80, 160, 80, Frac(3, 10), NoCosts>>
    /\ call.ret = <<RInt(960), RInt(11840), RInt(12800)>>

\* C6: option_cost_deterministic exercises iff spot > strike (not when spot
\* = strike); when exercising, exercised_qty = min(demand, option_qty) and
\* total_cost = option_qty*premium + exercised_qty*strike + max(demand -
\* exercised_qty, 0)*spot, otherwise exercised_qty = 0 and total_cost =
\* option_qty*premium + demand*spot; spot_only_cost = demand*spot always.
\* demand=120, option_qty=100, strike=95, premium=12, spot=110 gives
\* total_cost 12900, spot_only_cost 13200, cost advantage 300.
C6_OptionDeterministic ==
    Called("option_cost_deterministic") =>
        LET D == call.args[1]
            oq == call.args[2]
            strike == call.args[3]
            premium == call.args[4]
            spot == call.args[5]
            r == call.ret
            ex == IMin(D, oq)
        IN  /\ (r.should_exercise = One) <=> (spot > strike)
            /\ (r.should_exercise = Zero) <=> (spot <= strike)
            /\ r.spot_only_cost = RInt(D * spot)
            /\ (spot > strike =>
                  /\ r.exercised_qty = RInt(ex)
                  /\ r.total_cost = RInt(oq * premium + ex * strike
                                         + IMax(D - ex, 0) * spot))
            /\ (spot <= strike =>
                  /\ r.exercised_qty = Zero
                  /\ r.total_cost = RInt(oq * premium + D * spot))
            /\ (call.args = <<120, 100, 95, 12, 110>> =>
                  /\ r.total_cost = RInt(12900)
                  /\ r.spot_only_cost = RInt(13200)
                  /\ RSub(r.spot_only_cost, r.total_cost) = RInt(300))

C6_Witness ==
    /\ Called("option_cost_deterministic")
    /\ call.args = <<120, 100, 95, 12, 110>>
    /\ call.ret.should_exercise = One
    /\ call.ret.exercised_qty = RInt(100)
    /\ call.ret.total_cost = RInt(12900)

\* C7: for demand >= 0, Q0 >= 0 and 0 <= adj_pct <= 100,
\* quantity_flex_deterministic returns lower = max(0, Q0*(1 - adj_pct/100)),
\* upper = Q0*(1 + adj_pct/100), final_order = clamp(demand, lower, upper)
\* with lower <= final_order <= upper, unmet = max(demand - final_order, 0),
\* overstock = max(final_order - demand, 0) and total_cost = w*final_order +
\* holding*overstock + (shortage + penalty)*unmet - salvage*overstock.
\* Q0=100, adj_pct=20, demand=130, w=92 with no extra costs gives lower 80,
\* upper 120, final_order 120, unmet 10, overstock 0, total_cost 11040.
\* (All quantities below are in hundredths.)
C7_QuantityFlexDeterministic ==
    Called("quantity_flex_deterministic") =>
        LET D == 100 * call.args[1]
            Q0 == call.args[2]
            adj == call.args[3]
            w == call.args[4]
            costs == call.args[5]
            r == call.ret
            lower == IMax(0, Q0 * (100 - adj))
            upper == Q0 * (100 + adj)
            final == IF D < lower THEN lower ELSE IF D > upper THEN upper ELSE D
            unmet == IMax(D - final, 0)
            overstock == IMax(final - D, 0)
        IN  /\ r.lower = Frac(lower, 100)
            /\ r.upper = Frac(upper, 100)
            /\ r.final_order = Frac(final, 100)
            /\ RLe(r.lower, r.final_order) /\ RLe(r.final_order, r.upper)
            /\ r.unmet = Frac(unmet, 100)
            /\ r.overstock = Frac(overstock, 100)
            /\ r.total_cost = Frac(w * final + Rate(costs, "holding") * overstock
                                   + (Rate(costs, "shortage") + Rate(costs, "penalty")) * unmet
                                   - Rate(costs, "salvage") * overstock, 100)
            /\ (call.args = <<130, 100, 20, 92, NoCosts>> =>
                  /\ r.lower = RInt(80) /\ r.upper = RInt(120)
                  /\ r.final_order = RInt(120) /\ r.unmet = RInt(10)
                  /\ r.overstock = Zero /\ r.total_cost = RInt(11040))

C7_Witness ==
    /\ Called("quantity_flex_deterministic")
    /\ call.args = <<130, 100, 20, 92, NoCosts>>
    /\ call.ret.final_order = RInt(120)
    /\ call.ret.unmet = RInt(10)
    /\ call.ret.total_cost = RInt(11040)

\* ------------------------------------------------------------------------
\* Demand model

\* maximum number of comma-separated items in a discrete text input
MaxLen == 2

RECURSIVE SumSeq(_)
\* sum(values) / np.sum(values)
SumSeq(values) ==
    IF values = <<>> THEN Zero
    ELSE RAdd(values[1], SumSeq(Tail(values)))

RECURSIVE SortSet(_)
\* sorted(values): the elements of a set of numbers in increasing order
SortSet(values) ==
    IF values = {} THEN <<>>
    ELSE LET m == CHOOSE x \in values : \A y \in values : RLe(x, y)
         IN  <<m>> \o SortSet(values \ {m})

\* An item of a text input, after splitting at commas and newlines and
\* stripping: a number (kind "num", with its value), an empty item (kind
\* "blank") or anything float() rejects (kind "word").
Num(v) == [kind |-> "num", val |-> v]
Blank == [kind |-> "blank"]
Word == [kind |-> "word"]

\* parse_float_list: empty items are skipped, a non-numeric item raises
\* ValueError (ok = FALSE)
parse_float_list(text) ==
    IF \E i \in DOMAIN text : text[i].kind = "word"
    THEN [ok |-> FALSE, values |-> <<>>]
    ELSE LET nums == SelectSeq(text, LAMBDA item : item.kind = "num")
         IN  [ok |-> TRUE, values |-> [i \in DOMAIN nums |-> nums[i].val]]

\* numpy's default relative tolerance, rtol = 1e-05
RTol == Frac(1, 100000)

\* np.isclose(a, b, atol=atol): |a - b| <= atol + rtol * |b|
isclose(a, b, atol) == RLe(RAbs(RSub(a, b)), RAdd(atol, RMul(RTol, RAbs(b))))

\* condensed[d] after the loop that overwrites instead of accumulating
condensed_last(demands_raw, probs_raw, d) ==
    LET hits == {i \in DOMAIN demands_raw : demands_raw[i] = d}
        last == CHOOSE i \in hits : \A j \in hits : j <= i
    IN  probs_raw[last]

\* condensed[d] after the loop of lines 441-442: the sum of the
\* probabilities given for demand value d
condensed(demands_raw, probs_raw, d) ==
    LET hits == SelectSeq([i \in DOMAIN demands_raw |-> i],
                          LAMBDA i : demands_raw[i] = d)
    IN  SumSeq([k \in DOMAIN hits |-> probs_raw[hits[k]]])

DemandModel(mode, distribution, params) ==
    [mode |-> mode, distribution |-> distribution, params |-> params]

\* the discrete branch of demand_handler, after the text areas were read
discrete_demand_handler(demands_text, probs_text) ==
    LET dparse == parse_float_list(demands_text)
        pparse == parse_float_list(probs_text)
        demands_raw == dparse.values
        probs_raw == pparse.values
        total_prob == SumSeq(probs_raw)
        demands_sorted == SortSet({demands_raw[i] : i \in DOMAIN demands_raw})
        probs_sorted == [i \in DOMAIN demands_sorted |->
                            condensed(demands_raw, probs_raw, demands_sorted[i])]
        norm_total == IF LeEPS(SumSeq(probs_sorted)) THEN Frac(1, 10^9)
                      ELSE SumSeq(probs_sorted)
    IN  IF ~dparse.ok \/ ~pparse.ok THEN None
        ELSE IF Len(demands_raw) = 0 \/ Len(probs_raw) = 0 THEN None
        ELSE IF Len(demands_raw) # Len(probs_raw) THEN None
        ELSE IF \E i \in DOMAIN demands_raw : RLt(demands_raw[i], Zero) THEN None
        ELSE IF \E i \in DOMAIN probs_raw : RLt(probs_raw[i], Zero) THEN None
        ELSE IF ~isclose(total_prob, One, Frac(1, 10000)) THEN None
        ELSE DemandModel("Random", "discrete",
                 [demands |-> demands_sorted,
                  probabilities |-> [i \in DOMAIN probs_sorted |->
                                        RDiv(probs_sorted[i], norm_total)]])

\* build_sidebar's distribution_type for deterministic demand
NoDistribution == "None"

\* demand_handler; w holds the values of the widgets it reads
demand_handler(demand_type, distribution_type, w) ==
    IF demand_type = "Deterministic"
    THEN DemandModel("Deterministic", "deterministic", [demand |-> w.demand])
    ELSE IF distribution_type = "Normal Distribution"
    THEN DemandModel("Random", "normal", [mean |-> w.mean, std |-> w.std])
    ELSE IF distribution_type = "Uniform Distribution"
    THEN IF RLt(w.high, w.low) THEN None
         ELSE DemandModel("Random", "uniform", [low |-> w.low, high |-> w.high])
    ELSE IF distribution_type = "Discrete Distribution"
    THEN discrete_demand_handler(w.demands_text, w.probs_text)
    ELSE None

\* scipy's standard normal CDF and density at z = k/2, k = 0, 1, ..., to
\* four decimals (in 1/10000); beyond the tables they round to 1 and to 0.
\* Between two table points both are interpolated linearly.
PhiTable == <<5000, 6915, 8413, 9332, 9772, 9938, 9987, 9998>>
PdfTable == <<3989, 3521, 2420, 1295, 540, 175, 44, 9, 1>>

PhiAt(k) ==
    LET upper == IF Abs(k) + 1 > Len(PhiTable) THEN 10000 ELSE PhiTable[Abs(k) + 1]
    IN  IF k >= 0 THEN upper ELSE 10000 - upper

PdfAt(k) == IF Abs(k) + 1 > Len(PdfTable) THEN 0 ELSE PdfTable[Abs(k) + 1]

\* the value at z of the table At, interpolated
Interpolated(At(_), z) ==
    LET z2 == RMul(RInt(2), z)
        k == z2[1] \div z2[2]
        t == RSub(z2, RInt(k))
    IN  RAdd(Frac(At(k), 10000), RMul(t, Frac(At(k + 1) - At(k), 10000)))

\* float infinities
Infinity == <<1, 0>>
NegInfinity == <<-1, 0>>

\* norm(loc=mean, scale=std).cdf(x), std > 0
NormCdf(x, mean, std) == Interpolated(PhiAt, RDiv(RSub(x, mean), std))

\* std * norm(loc=mean, scale=std).pdf(x), std > 0
NormPdf(x, mean, std) == Interpolated(PdfAt, RDiv(RSub(x, mean), std))

\* norm.ppf(probability, loc=mean, scale=std), std > 0: the inverse of NormCdf
NormPpf(probability, mean, std) ==
    IF probability = Zero THEN NegInfinity
    ELSE IF probability = One THEN Infinity
    ELSE LET k == CHOOSE n \in -8..7 :
                    /\ RLe(Frac(PhiAt(n), 10000), probability)
                    /\ RLt(probability, Frac(PhiAt(n + 1), 10000))
             t == RDiv(RSub(probability, Frac(PhiAt(k), 10000)),
                       Frac(PhiAt(k + 1) - PhiAt(k), 10000))
             z == RDiv(RAdd(RInt(k), t), RInt(2))
         IN  RAdd(mean, RMul(std, z))

\* DemandModel.is_random
is_random(self) == self.mode = "Random"

\* DemandModel.cdf
cdf(self, x) ==
    IF self.distribution = "deterministic"
    THEN IF RLe(self.params.demand, x) THEN One ELSE Zero
    ELSE IF self.distribution = "normal"
    THEN LET mean == self.params.mean
             std == self.params.std
         IN  IF LeEPS(std)
             THEN IF RLe(RMax(mean, Zero), x) THEN One ELSE Zero
             ELSE IF RLe(x, Zero) THEN NormCdf(Zero, mean, std)
             ELSE NormCdf(x, mean, std)
    ELSE IF self.distribution = "uniform"
    THEN LET low == self.params.low
             high == self.params.high
             width == IF LeEPS(RSub(high, low)) THEN Frac(1, 10^9) ELSE RSub(high, low)
         IN  IF RLe(x, low) THEN Zero
             ELSE IF RLe(high, x) THEN One
             ELSE RDiv(RSub(x, low), width)
    ELSE IF self.distribution = "discrete"
    THEN LET demands == self.params.demands
             probabilities == self.params.probabilities
             mask == SelectSeq([i \in DOMAIN demands |-> i],
                               LAMBDA i : RLe(demands[i], x))
         IN  SumSeq([k \in DOMAIN mask |-> probabilities[mask[k]]])
    ELSE Zero

\* quad(lambda d: fn(d) * distribution.pdf(d), 0.0, np.inf) for the normal
\* distribution with std > 0.  Every payoff of the program is piecewise
\* linear; kinks holds the points where fn changes slope.  On a piece
\* [a, b] where fn(d) = c0 + c1*d the integral is
\* c0*(Phi(b) - Phi(a)) + c1*(mean*(Phi(b) - Phi(a)) - std*(phi(b) - phi(a))).
NormalQuad(fn(_), kinks, mean, std) ==
    LET nodes == SortSet({Zero} \cup {k \in kinks : RLt(Zero, k)})
        n == Len(nodes)
        piece(a, c1, dPhi, dpdf) ==
            RAdd(RMul(RSub(fn(a), RMul(c1, a)), dPhi),
                 RMul(c1, RSub(RMul(mean, dPhi), RMul(std, dpdf))))
        inner(a, b) ==
            piece(a, RDiv(RSub(fn(b), fn(a)), RSub(b, a)),
                  RSub(NormCdf(b, mean, std), NormCdf(a, mean, std)),
                  RSub(NormPdf(b, mean, std), NormPdf(a, mean, std)))
        tail(a) ==
            piece(a, RSub(fn(RAdd(a, One)), fn(a)),
                  RSub(One, NormCdf(a, mean, std)),
                  RNeg(NormPdf(a, mean, std)))
    IN  RAdd(SumSeq([i \in 1..(n - 1) |-> inner(nodes[i], nodes[i + 1])]),
             tail(nodes[n]))

\* quad(lambda d: fn(d) * pdf, low, high) for the uniform distribution with
\* high > low: the trapezoid rule on the pieces of fn, which is exact
UniformQuad(fn(_), kinks, low, high) ==
    LET pdf == RDiv(One, RSub(high, low))
        nodes == SortSet({low, high} \cup {k \in kinks : RLt(low, k) /\ RLt(k, high)})
        n == Len(nodes)
        inner(a, b) == RMul(RMul(RDiv(RAdd(fn(a), fn(b)), RInt(2)), RSub(b, a)), pdf)
    IN  SumSeq([i \in 1..(n - 1) |-> inner(nodes[i], nodes[i + 1])])

\* raise ValueError("Unsupported demand distribution.")
ValueError == [raised |-> "ValueError"]

\* normal_expected_sales whose zero-spread case ignores the order quantity
normal_expected_sales_unbounded(mean, std, order_qty) ==
    IF LeEPS(std) THEN RMax(mean, Zero)
    ELSE NormalQuad(LAMBDA d : RMin(RMax(order_qty, Zero), d),
                    {RMax(order_qty, Zero)}, mean, std)

\* normal_expected_sales (the value the cached function returns)
normal_expected_sales(mean, std, order_qty) ==
    LET q == RMax(order_qty, Zero)
    IN  IF LeEPS(std) THEN RMin(RMax(mean, Zero), q)
        ELSE NormalQuad(LAMBDA d : RMin(q, d), {q}, mean, std)

\* normal_expected_demand (the value the cached function returns)
normal_expected_demand(mean, std) ==
    IF LeEPS(std) THEN RMax(mean, Zero)
    ELSE NormalQuad(LAMBDA d : d, {}, mean, std)

\* the normal branch of expected_of drops the mass below zero
negative_mass_dropped(mean, std) == Zero

\* negative_mass = distribution.cdf(0.0) of the normal branch of expected_of
negative_mass(mean, std) == NormCdf(Zero, mean, std)

\* the distribution tags DemandModel's operations know
DistributionTags == {"deterministic", "normal", "uniform", "discrete"}

\* DemandModel.expected_of; kinks holds the points where fn changes slope
expected_of(self, fn(_), kinks) ==
    IF self.distribution = "deterministic" THEN fn(self.params.demand)
    ELSE IF self.distribution = "normal"
    THEN LET mean == self.params.mean
             std == self.params.std
         IN  IF LeEPS(std) THEN fn(RMax(mean, Zero))
             ELSE RAdd(NormalQuad(fn, kinks, mean, std),
                       RMul(fn(Zero), negative_mass(mean, std)))
    ELSE IF self.distribution = "uniform"
    THEN LET low == self.params.low
             high == self.params.high
         IN  IF LeEPS(RAbs(RSub(high, low))) THEN fn(low)
             ELSE UniformQuad(fn, kinks, low, high)
    ELSE IF self.distribution = "discrete"
    THEN LET demands == self.params.demands
             probabilities == self.params.probabilities
         IN  SumSeq([i \in DOMAIN demands |-> RMul(fn(demands[i]), probabilities[i])])
    ELSE ValueError

\* the cumulative sums shifted by one entry
Cumulative_before(probabilities, i) == SumSeq(SubSeq(probabilities, 1, i - 1))

\* np.cumsum(probabilities)[i]
Cumulative(probabilities, i) == SumSeq(SubSeq(probabilities, 1, i))

\* DemandModel.ppf with np.searchsorted(..., side="right") in the discrete
\* branch
ppf_side_right(self, probability) ==
    LET q == Clip(probability, Zero, One)
    IN  IF self.distribution = "deterministic" THEN self.params.demand
        ELSE IF self.distribution = "normal"
        THEN IF LeEPS(self.params.std) THEN RMax(self.params.mean, Zero)
             ELSE RMax(NormPpf(q, self.params.mean, self.params.std), Zero)
        ELSE IF self.distribution = "uniform"
        THEN RAdd(self.params.low, RMul(q, RSub(self.params.high, self.params.low)))
        ELSE IF self.distribution = "discrete"
        THEN LET demands == self.params.demands
                 reached == {i \in DOMAIN demands :
                                RLt(q, Cumulative(self.params.probabilities, i))}
             IN  IF reached = {} THEN demands[Len(demands)]
                 ELSE demands[CHOOSE i \in reached : \A j \in reached : i <= j]
        ELSE Zero

\* DemandModel.ppf
ppf(self, probability) ==
    LET q == Clip(probability, Zero, One)
    IN  IF self.distribution = "deterministic" THEN self.params.demand
        ELSE IF self.distribution = "normal"
        THEN LET mean == self.params.mean
                 std == self.params.std
             IN  IF LeEPS(std) THEN RMax(mean, Zero)
                 ELSE RMax(NormPpf(q, mean, std), Zero)
        ELSE IF self.distribution = "uniform"
        THEN RAdd(self.params.low, RMul(q, RSub(self.params.high, self.params.low)))
        ELSE IF self.distribution = "discrete"
        THEN LET demands == self.params.demands
                 probabilities == self.params.probabilities
                 \* np.searchsorted(cumulative, q, side="left")
                 reached == {i \in DOMAIN demands : RLe(q, Cumulative(probabilities, i))}
                 found == IF reached = {} THEN Len(demands) + 1
                          ELSE CHOOSE i \in reached : \A j \in reached : i <= j
                 idx == IF found > Len(demands) THEN Len(demands) ELSE found
             IN  demands[idx]
        ELSE Zero

\* metrics whose expected_unmet is the unmet demand at the expected demand
metrics_of_unmet_at_mean(self, order_qty, expected_sales, expected_demand) ==
    LET expected_leftover == RMax(RSub(order_qty, expected_sales), Zero)
        expected_unmet == RMax(RSub(expected_demand, order_qty), Zero)
        service_level == IF LeEPS(expected_demand) THEN One
                         ELSE Clip(RDiv(expected_sales, expected_demand), Zero, One)
        stockout_probability == Clip(RSub(One, cdf(self, order_qty)), Zero, One)
    IN  [expected_sales |-> expected_sales,
         expected_demand |-> expected_demand,
         expected_leftover |-> expected_leftover,
         expected_unmet |-> expected_unmet,
         service_level |-> service_level,
         stockout_probability |-> stockout_probability]

\* the dictionary DemandModel.metrics returns, given its two expectations
metrics_of(self, order_qty, expected_sales, expected_demand) ==
    LET expected_leftover == RMax(RSub(order_qty, expected_sales), Zero)
        expected_unmet == RMax(RSub(expected_demand, expected_sales), Zero)
        service_level == IF LeEPS(expected_demand) THEN One
                         ELSE Clip(RDiv(expected_sales, expected_demand), Zero, One)
        stockout_probability == Clip(RSub(One, cdf(self, order_qty)), Zero, One)
    IN  [expected_sales |-> expected_sales,
         expected_demand |-> expected_demand,
         expected_leftover |-> expected_leftover,
         expected_unmet |-> expected_unmet,
         service_level |-> service_level,
         stockout_probability |-> stockout_probability]

\* expected_sales of DemandModel.metrics, order_qty >= 0
metrics_expected_sales(self, order_qty) ==
    IF self.distribution = "normal"
    THEN normal_expected_sales(self.params.mean, self.params.std, order_qty)
    ELSE expected_of(self, LAMBDA d : RMin(order_qty, d), {order_qty})

\* expected_demand of DemandModel.metrics
metrics_expected_demand(self) ==
    IF self.distribution = "normal"
    THEN normal_expected_demand(self.params.mean, self.params.std)
    ELSE expected_of(self, LAMBDA d : d, {})

\* DemandModel.metrics taking a negative order quantity as it is
metrics_raw_quantity(self, order_qty) ==
    metrics_of(self, order_qty, metrics_expected_sales(self, order_qty),
               metrics_expected_demand(self))

\* DemandModel.metrics; with an unknown tag its first call of expected_of
\* raises, and the exception leaves metrics
metrics(self, order_qty) ==
    IF self.distribution \notin DistributionTags THEN ValueError
    ELSE metrics_of(self, RMax(order_qty, Zero),
                    metrics_expected_sales(self, RMax(order_qty, Zero)),
                    metrics_expected_demand(self))

\* np.linspace(start, stop, num_points): num_points evenly spaced samples,
\* the first at start and (for num_points > 1) the last at stop
Linspace(start, stop, num_points) ==
    [i \in 1..num_points |->
        IF num_points = 1 THEN start
        ELSE RAdd(start, RMul(RSub(stop, start), Frac(i - 1, num_points - 1)))]

\* np.sort(values): the values in non-decreasing order, duplicates kept
RECURSIVE np_sort(_)
np_sort(values) ==
    IF Len(values) <= 1 THEN values
    ELSE LET least == CHOOSE i \in DOMAIN values :
                          \A j \in DOMAIN values :
                              RLt(values[i], values[j]) \/ (values[i] = values[j] /\ i <= j)
             others == [k \in 1..(Len(values) - 1) |->
                           IF k < least THEN values[k] ELSE values[k + 1]]
         IN  <<values[least]>> \o np_sort(others)

\* DemandModel.demand_grid(num_points)
demand_grid(self, num_points) ==
    IF self.distribution = "deterministic"
    THEN Linspace(Zero, RMax(One, RMul(self.params.demand, RInt(2))), num_points)
    ELSE IF self.distribution = "normal"
    THEN Linspace(Zero, RMax(One, ppf(self, Frac(995, 1000))), num_points)
    ELSE IF self.distribution = "uniform"
    THEN LET low == self.params.low
             high == self.params.high
         IN  IF LeEPS(RAbs(RSub(high, low)))
             THEN Linspace(Zero, RMax(One, RMul(low, RInt(2))), num_points)
             ELSE Linspace(low, high, num_points)
    ELSE IF self.distribution = "discrete"
    THEN LET demands == np_sort(self.params.demands)
         IN  IF Len(demands) = 1
             THEN Linspace(Zero, RMax(One, RMul(demands[1], RInt(2))), num_points)
             ELSE demands
    ELSE Linspace(Zero, RInt(100), num_points)

\* DemandModel.max_reasonable_demand
max_reasonable_demand(self) ==
    IF self.distribution = "deterministic" THEN RMax(One, self.params.demand)
    ELSE IF self.distribution = "normal" THEN RMax(One, ppf(self, Frac(995, 1000)))
    ELSE IF self.distribution = "uniform" THEN RMax(One, self.params.high)
    ELSE IF self.distribution = "discrete"
    THEN RMax(One, self.params.demands[Len(self.params.demands)])
    ELSE RInt(100)

\* option_cost_expected that exercises the whole option quantity
option_cost_of_full_exercise(m, option_qty, strike, premium, spot) ==
    LET expected_demand == m.expected_demand
        should_exercise == RLt(strike, spot)
        total_cost ==
            IF should_exercise
            THEN RAdd(RAdd(RMul(option_qty, premium), RMul(option_qty, strike)),
                      RMul(RMax(RSub(expected_demand, option_qty), Zero), spot))
            ELSE RAdd(RMul(option_qty, premium), RMul(expected_demand, spot))
        exercised_qty == IF should_exercise THEN option_qty ELSE Zero
        spot_only == RMul(expected_demand, spot)
    IN  [should_exercise |-> IF should_exercise THEN One ELSE Zero,
         exercised_qty |-> exercised_qty,
         total_cost |-> total_cost,
         spot_only_cost |-> spot_only,
         expected_demand |-> expected_demand,
         expected_unhedged |-> RMax(RSub(expected_demand, exercised_qty), Zero)]

\* option_cost_expected, given metrics = demand_model.metrics(option_qty)
option_cost_of(m, option_qty, strike, premium, spot) ==
    LET expected_min == m.expected_sales
        expected_demand == m.expected_demand
        should_exercise == RLt(strike, spot)
        total_cost ==
            IF should_exercise
            THEN RAdd(RAdd(RMul(option_qty, premium), RMul(expected_min, strike)),
                      RMul(RMax(RSub(expected_demand, expected_min), Zero), spot))
            ELSE RAdd(RMul(option_qty, premium), RMul(expected_demand, spot))
        exercised_qty == IF should_exercise THEN expected_min ELSE Zero
        spot_only == RMul(expected_demand, spot)
    IN  [should_exercise |-> IF should_exercise THEN One ELSE Zero,
         exercised_qty |-> exercised_qty,
         total_cost |-> total_cost,
         spot_only_cost |-> spot_only,
         expected_demand |-> expected_demand,
         expected_unhedged |-> RMax(RSub(expected_demand, exercised_qty), Zero)]

\* option_cost_expected
option_cost_expected(demand_model_, option_qty, strike, premium, spot) ==
    option_cost_of(metrics(demand_model_, option_qty), option_qty, strike, premium, spot)

\* quantity_flex_expected whose total cost leaves the salvage credit out
quantity_flex_of_no_salvage(lower, upper, final_order, unmet, overstock, expected_demand, wholesale_price, costs) ==
    LET procurement == RMul(final_order, wholesale_price)
        total1 == RAdd(procurement, RMul(CostGet(costs, "holding"), overstock))
        total_cost == RAdd(total1,
                           RMul(RAdd(CostGet(costs, "shortage"),
                                     CostGet(costs, "penalty")),
                                unmet))
        service_level == IF LeEPS(expected_demand) THEN One
                         ELSE Clip(RDiv(RSub(expected_demand, unmet), expected_demand),
                                   Zero, One)
    IN  [lower |-> lower, upper |-> upper, final_order |-> final_order,
         unmet |-> unmet, overstock |-> overstock,
         procurement_cost |-> procurement, total_cost |-> total_cost,
         service_level |-> service_level, expected_demand |-> expected_demand]

\* quantity_flex_expected, given its band and its four expectations
quantity_flex_of(lower, upper, final_order, unmet, overstock, expected_demand, wholesale_price, costs) ==
    LET procurement == RMul(final_order, wholesale_price)
        total1 == RAdd(procurement, RMul(CostGet(costs, "holding"), overstock))
        total2 == RAdd(total1,
                       RMul(RAdd(CostGet(costs, "shortage"), CostGet(costs, "penalty")),
                            unmet))
        total_cost == RSub(total2, RMul(CostGet(costs, "salvage"), overstock))
        service_level == IF LeEPS(expected_demand) THEN One
                         ELSE Clip(RDiv(RSub(expected_demand, unmet), expected_demand),
                                   Zero, One)
    IN  [lower |-> lower, upper |-> upper, final_order |-> final_order,
         unmet |-> unmet, overstock |-> overstock,
         procurement_cost |-> procurement, total_cost |-> total_cost,
         service_level |-> service_level, expected_demand |-> expected_demand]

\* the expectations of quantity_flex_expected over the band [lower, upper]
quantity_flex_band(demand_model_, lower, upper, wholesale_price, costs) ==
    quantity_flex_of(
        lower, upper,
        expected_of(demand_model_, LAMBDA d : clamp(d, lower, upper), {lower, upper}),
        expected_of(demand_model_,
                    LAMBDA d : RMax(RSub(d, clamp(d, lower, upper)), Zero),
                    {lower, upper}),
        expected_of(demand_model_,
                    LAMBDA d : RMax(RSub(clamp(d, lower, upper), d), Zero),
                    {lower, upper}),
        expected_of(demand_model_, LAMBDA d : d, {}),
        wholesale_price, costs)

\* quantity_flex_expected
quantity_flex_expected(demand_model_, initial_commitment, adjustment_pct, wholesale_price, costs) ==
    quantity_flex_band(
        demand_model_,
        RMax(Zero, RMul(initial_commitment, RSub(One, RDiv(adjustment_pct, RInt(100))))),
        RMul(initial_commitment, RAdd(One, RDiv(adjustment_pct, RInt(100)))),
        wholesale_price, costs)

\* wholesale_profit_expected, given m = demand_model.metrics(order_qty)
wholesale_profit_of(m, order_qty, retail_price, wholesale_price, costs) ==
    RAdd(RSub(RMul(retail_price, m.expected_sales), RMul(wholesale_price, order_qty)),
         inventory_adjustment(m.expected_leftover, m.expected_unmet, costs).net)

\* wholesale_profit_expected
wholesale_profit_expected(order_qty, demand_model_, retail_price, wholesale_price, costs) ==
    wholesale_profit_of(metrics(demand_model_, order_qty), order_qty, retail_price,
                        wholesale_price, costs)

\* buyback_profit_expected whose manufacturer share deducts the production cost
buyback_profit_of_deducting(m, order_qty, retail_price, wholesale_price, buyback_price, production_cost, costs) ==
    <<RAdd(RSub(RAdd(RMul(retail_price, m.expected_sales),
                     RMul(buyback_price, m.expected_leftover)),
                RMul(wholesale_price, order_qty)),
           inventory_adjustment(m.expected_leftover, m.expected_unmet, costs).net),
      RSub(RSub(RMul(wholesale_price, order_qty),
                RMul(buyback_price, m.expected_leftover)),
           RMul(production_cost, order_qty)),
      RAdd(RSub(RMul(retail_price, m.expected_sales), RMul(production_cost, order_qty)),
           inventory_adjustment(m.expected_leftover, m.expected_unmet, costs).net)>>

\* buyback_profit_expected, given m = demand_model.metrics(order_qty):
\* <<retailer, manufacturer, total>>
buyback_profit_of(m, order_qty, retail_price, wholesale_price, buyback_price, production_cost, costs) ==
    <<RAdd(RSub(RAdd(RMul(retail_price, m.expected_sales),
                     RMul(buyback_price, m.expected_leftover)),
                RMul(wholesale_price, order_qty)),
           inventory_adjustment(m.expected_leftover, m.expected_unmet, costs).net),
      RSub(RMul(wholesale_price, order_qty), RMul(buyback_price, m.expected_leftover)),
      RAdd(RSub(RMul(retail_price, m.expected_sales), RMul(production_cost, order_qty)),
           inventory_adjustment(m.expected_leftover, m.expected_unmet, costs).net)>>

\* buyback_profit_expected
buyback_profit_expected(order_qty, demand_model_, retail_price, wholesale_price, buyback_price, production_cost, costs) ==
    buyback_profit_of(metrics(demand_model_, order_qty), order_qty, retail_price,
                      wholesale_price, buyback_price, production_cost, costs)

\* the retailer's profit of revenue_sharing_profit_expected
revenue_sharing_retailer(m, order_qty, retail_price, wholesale_price, alpha, costs) ==
    RAdd(RSub(RMul(RMul(RSub(One, alpha), retail_price), m.expected_sales),
              RMul(wholesale_price, order_qty)),
         inventory_adjustment(m.expected_leftover, m.expected_unmet, costs).net)

\* the supplier's profit of revenue_sharing_profit_expected
revenue_sharing_supplier(m, order_qty, retail_price, wholesale_price, alpha) ==
    RAdd(RMul(RMul(alpha, retail_price), m.expected_sales),
         RMul(wholesale_price, order_qty))

\* revenue_sharing_profit_expected, given m = demand_model.metrics(order_qty):
\* <<retailer, supplier, total>>
revenue_sharing_profit_of(m, order_qty, retail_price, wholesale_price, alpha, costs) ==
    <<revenue_sharing_retailer(m, order_qty, retail_price, wholesale_price, alpha, costs),
      revenue_sharing_supplier(m, order_qty, retail_price, wholesale_price, alpha),
      RAdd(revenue_sharing_retailer(m, order_qty, retail_price, wholesale_price, alpha,
                                    costs),
           revenue_sharing_supplier(m, order_qty, retail_price, wholesale_price, alpha))>>

\* revenue_sharing_profit_expected
revenue_sharing_profit_expected(order_qty, demand_model_, retail_price, wholesale_price, alpha, costs) ==
    revenue_sharing_profit_of(metrics(demand_model_, order_qty), order_qty, retail_price,
                              wholesale_price, alpha, costs)

\* ------------------------------------------------------------------------
\* Inputs of demand_handler: the demand type, the distribution and the
\* values of the widgets it reads (number inputs have min_value = 0)

DeterministicInputs ==
    {[demand_type |-> "Deterministic", distribution_type |-> NoDistribution,
      w |-> [demand |-> RInt(d)]] : d \in Quantities}

NormalInputs ==
    {[demand_type |-> "Random", distribution_type |-> "Normal Distribution",
      w |-> [mean |-> RInt(mean), std |-> RInt(std)]] :
        mean \in {0, 100}, std \in {0, 20}}

UniformInputs ==
    {[demand_type |-> "Random", distribution_type |-> "Uniform Distribution",
      w |-> [low |-> RInt(low), high |-> RInt(high)]] :
        low \in {60, 100, 140}, high \in {60, 100, 140}}

DiscreteInput(demands_text, probs_text) ==
    [demand_type |-> "Random", distribution_type |-> "Discrete Distribution",
     w |-> [demands_text |-> demands_text, probs_text |-> probs_text]]

\* the sequences over S of length at most n
SeqsUpTo(S, n) == UNION {[1..k -> S] : k \in 0..n}

\* numeric items typed into the two text areas
DemandItems == {Num(RInt(60)), Num(RInt(100))}
ProbItems == {Num(Zero), Num(Frac(1, 2)), Num(One), Num(Frac(1000105, 1000000))}

NumItems(values) == [i \in DOMAIN values |-> Num(values[i])]

\* the documented inputs, the widgets' defaults, inputs with negative
\* values, with sums just below 1, and with empty and non-numeric items
DiscreteExamples ==
    {DiscreteInput(NumItems(<<RInt(60), RInt(100), RInt(100), RInt(140)>>),
                   NumItems(<<Frac(1, 5), Frac(1, 4), Frac(1, 4), Frac(3, 10)>>)),
     DiscreteInput(NumItems(<<RInt(60), RInt(100), RInt(140)>>),
                   NumItems(<<Frac(1, 5), Frac(1, 2), Frac(3, 10)>>)),
     DiscreteInput(NumItems(<<RInt(140), RInt(60), RInt(140)>>),
                   NumItems(<<Frac(3, 10), Frac(1, 2), Frac(1, 5)>>)),
     DiscreteInput(<<Num(RInt(60)), Blank, Num(RInt(100))>>,
                   <<Num(Frac(1, 2)), Num(Frac(1, 2)), Blank>>),
     DiscreteInput(<<Num(RInt(60)), Word>>, <<Num(Frac(1, 2)), Num(Frac(1, 2))>>),
     DiscreteInput(<<Num(RInt(60)), Num(RInt(100))>>, <<Num(Frac(1, 2)), Word>>),
     DiscreteInput(NumItems(<<RInt(-20), RInt(100)>>),
                   NumItems(<<Frac(1, 2), Frac(1, 2)>>)),
     DiscreteInput(NumItems(<<RInt(60), RInt(100)>>),
                   NumItems(<<Frac(-1, 5), Frac(6, 5)>>)),
     DiscreteInput(NumItems(<<RInt(100)>>), NumItems(<<Frac(999895, 1000000)>>)),
     DiscreteInput(NumItems(<<RInt(100)>>), NumItems(<<Frac(9999, 10000)>>)),
     DiscreteInput(NumItems(<<RInt(100)>>), NumItems(<<Frac(9, 10)>>)),
     DiscreteInput(<<Blank>>, <<Blank>>)}

DiscreteInputs ==
    {DiscreteInput(d, q) : d \in SeqsUpTo(DemandItems, MaxLen),
                           q \in SeqsUpTo(ProbItems, MaxLen)}
    \cup DiscreteExamples

DemandInputs == DeterministicInputs \cup NormalInputs \cup UniformInputs
                \cup DiscreteInputs

\* arguments at which the operations of a DemandModel are probed
ProbePoints == Quantities \cup {140, 200}

\* demand_handler builds the request's DemandModel, or None
DemandHandler ==
    /\ pc = "start"
    /\ \E inp \in DemandInputs :
        /\ inputs' = inp
        /\ demand_model' = demand_handler(inp.demand_type, inp.distribution_type, inp.w)
    /\ pc' = "model"
    /\ UNCHANGED <<call, result, log, cache>>

\* DemandModel.cdf(x) on the request's model
Cdf ==
    /\ pc = "model"
    /\ demand_model # None
    /\ \E x \in ProbePoints :
        call' = [op |-> "cdf", args |-> <<x>>, ret |-> cdf(demand_model, RInt(x))]
    /\ pc' = "done"
    /\ UNCHANGED <<inputs, demand_model, result, log, cache>>

\* probability arguments of ppf, some outside [0, 1]
Probabilities ==
    {Frac(-1, 2), Zero, Frac(1, 5), Frac(1, 2), Frac(7, 10), Frac(995, 1000), One,
     Frac(3, 2)}

\* order quantities handed to metrics, one of them negative
OrderQuantities == ProbePoints \cup {-20, 90}

\* payoff functions handed to expected_of: d -> c, d -> d, d -> min(q, d)
Payoffs ==
    {[kind |-> "constant", c |-> RInt(c)] : c \in {-5, 0, 7}}
    \cup {[kind |-> "identity"]}
    \cup {[kind |-> "min", q |-> RInt(q)] : q \in {90, 100}}

\* fn(d) for the payoff f
PayoffAt(f, d) ==
    IF f.kind = "constant" THEN f.c
    ELSE IF f.kind = "identity" THEN d
    ELSE RMin(f.q, d)

\* the points where the payoff f changes slope
PayoffKinks(f) == IF f.kind = "min" THEN {f.q} ELSE {}

\* ppf on the request's model, accumulating the probabilities in place
\* (np.cumsum(probabilities, out=probabilities))
PpfAccumulatingInPlace ==
    /\ pc = "model"
    /\ demand_model # None
    /\ \E probability \in Probabilities :
        call' = [op |-> "ppf", args |-> <<probability>>,
                 ret |-> ppf(demand_model, probability)]
    /\ demand_model' =
         IF demand_model.distribution = "discrete"
         THEN [demand_model EXCEPT !.params.probabilities =
                  [i \in DOMAIN @ |-> Cumulative(@, i)]]
         ELSE demand_model
    /\ pc' = "done"
    /\ UNCHANGED <<inputs, result, log, cache>>

\* DemandModel.ppf(probability) on the request's model
Ppf ==
    /\ pc = "model"
    /\ demand_model # None
    /\ \E probability \in Probabilities :
        Returned("ppf", <<probability>>, ppf(demand_model, probability))

\* ppf(cdf(x)) on the request's model
PpfOfCdf ==
    /\ pc = "model"
    /\ demand_model # None
    /\ \E x \in ProbePoints :
        Returned("ppf_of_cdf", <<x>>, ppf(demand_model, cdf(demand_model, RInt(x))))

\* DemandModel.metrics(order_qty) on the request's model
Metrics ==
    /\ pc = "model"
    /\ demand_model # None
    /\ \E order_qty \in OrderQuantities :
        Returned("metrics", <<order_qty>>, metrics(demand_model, RInt(order_qty)))

\* DemandModel.expected_of(fn) on the request's model
ExpectedOf ==
    /\ pc = "model"
    /\ demand_model # None
    /\ \E f \in Payoffs :
        Returned("expected_of", <<f>>,
                 expected_of(demand_model, LAMBDA d : PayoffAt(f, d), PayoffKinks(f)))

\* numbers of sample points asked of demand_grid; graph_functions asks 90
GridSizes == {2, 3, 90}

\* DemandModel.demand_grid(num_points) on the request's model
DemandGrid ==
    /\ pc = "model"
    /\ demand_model # None
    /\ \E num_points \in GridSizes :
        Returned("demand_grid", <<num_points>>, demand_grid(demand_model, num_points))

\* DemandModel.max_reasonable_demand() on the request's model
MaxReasonableDemand ==
    /\ pc = "model"
    /\ demand_model # None
    /\ Returned("max_reasonable_demand", <<>>, max_reasonable_demand(demand_model))

NextDemand ==
    \/ DemandHandler
    \/ Cdf
    \/ Ppf
    \/ PpfOfCdf
    \/ Metrics
    \/ ExpectedOf
    \/ DemandGrid
    \/ MaxReasonableDemand

\* the demand factory and the operations of the model it returns
SpecDemand == Init /\ [][NextDemand]_vars

\* DemandModel is a plain dataclass: a caller of the class can construct it
\* with any distribution tag.  Models with tags the operations do not know,
\* next to one model of each known tag.
ConstructedModels ==
    {DemandModel(mode, tag, [low |-> RInt(60), peak |-> RInt(100), high |-> RInt(140)]) :
        mode \in {"Deterministic", "Random"}, tag \in {"triangular", "poisson", ""}}
    \cup {DemandModel("Deterministic", "deterministic", [demand |-> RInt(100)]),
          DemandModel("Random", "normal", [mean |-> RInt(100), std |-> RInt(20)]),
          DemandModel("Random", "uniform", [low |-> RInt(60), high |-> RInt(140)]),
          DemandModel("Random", "discrete",
                      [demands |-> <<RInt(60), RInt(100), RInt(140)>>,
                       probabilities |-> <<Frac(1, 5), Frac(1, 2), Frac(3, 10)>>])}

\* DemandModel(mode, distribution, params), called directly
Construct ==
    /\ pc = "start"
    /\ \E model \in ConstructedModels :
        /\ demand_model' = model
        /\ inputs' = [constructed |-> model.distribution]
    /\ pc' = "model"
    /\ UNCHANGED <<call, result, log, cache>>

NextModel ==
    \/ Construct
    \/ Cdf
    \/ Ppf
    \/ Metrics
    \/ ExpectedOf
    \/ DemandGrid
    \/ MaxReasonableDemand

\* the operations of a directly constructed DemandModel
SpecModel == Init /\ [][NextModel]_vars

\* ------------------------------------------------------------------------
\* The expected evaluators on the request's model, as graph_functions and
\* the contract handlers call them, in any order and any number

\* sidebar cost mappings handed to the expected evaluators
EvaluatorCosts ==
    {NoCosts,
     [salvage |-> 10, holding |-> 2, shortage |-> 5, penalty |-> 3],
     [salvage |-> 0, holding |-> 4, shortage |-> 0, penalty |-> 1]}

\* order, option and commitment quantities handed to the expected evaluators
EvaluatorQuantities == {0, 60, 100, 130}

WholesaleProfitExpected ==
    /\ pc = "model"
    /\ demand_model # None
    /\ \E Q \in EvaluatorQuantities, costs \in EvaluatorCosts :
        Returned("wholesale_profit_expected", <<Q, 150, 90, costs>>,
                 wholesale_profit_expected(RInt(Q), demand_model, RInt(150), RInt(90),
                                           costs))

BuybackProfitExpected ==
    /\ pc = "model"
    /\ demand_model # None
    /\ \E Q \in EvaluatorQuantities, b \in {0, 40}, c \in {0, 60},
          costs \in EvaluatorCosts :
        Returned("buyback_profit_expected", <<Q, 150, 95, b, c, costs>>,
                 buyback_profit_expected(RInt(Q), demand_model, RInt(150), RInt(95),
                                         RInt(b), RInt(c), costs))

RevenueSharingProfitExpected ==
    /\ pc = "model"
    /\ demand_model # None
    /\ \E Q \in EvaluatorQuantities, alpha \in Alphas, costs \in EvaluatorCosts :
        Returned("revenue_sharing_profit_expected", <<Q, 160, 80, alpha, costs>>,
                 revenue_sharing_profit_expected(RInt(Q), demand_model, RInt(160),
                                                 RInt(80), alpha, costs))

OptionCostExpected ==
    /\ pc = "model"
    /\ demand_model # None
    /\ \E option_qty \in EvaluatorQuantities, spot \in {95, 110} :
        Returned("option_cost_expected", <<option_qty, 95, 12, spot>>,
                 option_cost_expected(demand_model, RInt(option_qty), RInt(95),
                                      RInt(12), RInt(spot)))

QuantityFlexExpected ==
    /\ pc = "model"
    /\ demand_model # None
    /\ \E Q0 \in {0, 100}, adj \in {0, 20, 100}, costs \in EvaluatorCosts :
        Returned("quantity_flex_expected", <<Q0, adj, 92, costs>>,
                 quantity_flex_expected(demand_model, RInt(Q0), RInt(adj), RInt(92),
                                        costs))

\* graph_functions' profit-vs-demand curve of the buyback contract:
\* buyback_profit_deterministic at the points of the model's demand grid
BuybackProfitOverDemand ==
    /\ pc = "model"
    /\ demand_model # None
    /\ \E Q \in {0, 100}, b \in {0, 40}, c \in {0, 60}, costs \in EvaluatorCosts,
          i \in DOMAIN demand_grid(demand_model, 3) :
        Returned("buyback_profit_deterministic",
                 <<Q, demand_grid(demand_model, 3)[i], 150, 95, b, c, costs>>,
                 buyback_profit_deterministic(RInt(Q), demand_grid(demand_model, 3)[i],
                                              RInt(150), RInt(95), RInt(b), RInt(c),
                                              costs))

\* the caller takes the value returned and goes on to its next call
Continue ==
    /\ pc = "done"
    /\ demand_model # None
    /\ pc' = "model"
    /\ call' = NoCall
    /\ UNCHANGED <<inputs, demand_model, result, log, cache>>

NextSession ==
    \/ DemandHandler
    \/ Cdf
    \/ Ppf
    \/ Metrics
    \/ ExpectedOf
    \/ DemandGrid
    \/ MaxReasonableDemand
    \/ WholesaleProfitExpected
    \/ BuybackProfitExpected
    \/ RevenueSharingProfitExpected
    \/ OptionCostExpected
    \/ QuantityFlexExpected
    \/ BuybackProfitOverDemand
    \/ Continue

\* one request's model under any sequence of operations and evaluators
SpecSession == Init /\ [][NextSession]_vars

\* ------------------------------------------------------------------------
\* The memo tables of normal_expected_sales and normal_expected_demand
\* (functools.lru_cache).  A table is the sequence of its entries from the
\* least to the most recently used.

\* capacity of the table of normal_expected_sales (maxsize=4096 in the
\* source, scaled down)
SalesCacheSize == 2
\* capacity of the table of normal_expected_demand (maxsize=1024 in the
\* source, scaled down)
DemandCacheSize == 1

\* a key that leaves the last argument out
make_key_without_last(args) == SubSeq(args, 1, Len(args) - 1)

\* the key of a call: the tuple of its positional arguments
make_key(args) == args

\* the positions of the entries stored under the key
Stored(entries, key) == {i \in DOMAIN entries : entries[i].key = key}

\* the table without its i-th entry
Without(entries, i) ==
    [k \in 1..(Len(entries) - 1) |-> IF k < i THEN entries[k] ELSE entries[k + 1]]

\* a call through the wrapper of lru_cache: a hit returns the stored value
\* and makes the entry the most recent one; a miss returns the computed
\* value and stores it, dropping the least recent entry of a full table
lru_cache_wrapper(entries, maxsize, key, computed) ==
    IF Stored(entries, key) # {}
    THEN LET i == CHOOSE i \in Stored(entries, key) : TRUE
         IN  [ret |-> entries[i].value, hit |-> TRUE,
              entries |-> Append(Without(entries, i), entries[i])]
    ELSE [ret |-> computed, hit |-> FALSE,
          entries |-> Append(IF Len(entries) >= maxsize THEN Tail(entries)
                             ELSE entries,
                             [key |-> key, value |-> computed])]

\* normal_expected_sales as the callers reach it, through its memo table
cached_normal_expected_sales(entries, mean, std, order_qty) ==
    lru_cache_wrapper(entries, SalesCacheSize, make_key(<<mean, std, order_qty>>),
                      normal_expected_sales(mean, std, order_qty))

\* normal_expected_demand as the callers reach it, through its memo table
cached_normal_expected_demand(entries, mean, std) ==
    lru_cache_wrapper(entries, DemandCacheSize, make_key(<<mean, std>>),
                      normal_expected_demand(mean, std))

\* arguments of the memoized functions
CachedMeans == {0, 100}
CachedStds == {0, 20}
CachedQuantities == {-20, 100}

\* a memoized call returns; through is what the wrapper answered
Memoized(op, args, through, sales, demand) ==
    /\ pc' = "cached"
    /\ call' = [op |-> op, args |-> args, ret |-> through.ret, hit |-> through.hit]
    /\ cache' = [sales |-> sales, demand |-> demand]
    /\ UNCHANGED <<inputs, demand_model, result, log>>

NormalExpectedSales ==
    /\ pc \in {"start", "cached"}
    /\ \E std \in CachedStds, order_qty \in CachedQuantities :
        Memoized("normal_expected_sales", <<RInt(100), RInt(std), RInt(order_qty)>>,
                 cached_normal_expected_sales(cache.sales, RInt(100), RInt(std),
                                              RInt(order_qty)),
                 cached_normal_expected_sales(cache.sales, RInt(100), RInt(std),
                                              RInt(order_qty)).entries,
                 cache.demand)

NormalExpectedDemand ==
    /\ pc \in {"start", "cached"}
    /\ \E mean \in CachedMeans, std \in CachedStds :
        Memoized("normal_expected_demand", <<RInt(mean), RInt(std)>>,
                 cached_normal_expected_demand(cache.demand, RInt(mean), RInt(std)),
                 cache.sales,
                 cached_normal_expected_demand(cache.demand, RInt(mean), RInt(std)).entries)

\* metrics of a normal model, given what the two wrappers answered
metrics_through(self, order_qty, sales, demand) ==
    [ret |-> metrics_of(self, order_qty, sales.ret, demand.ret),
     hit |-> sales.hit /\ demand.hit]

\* DemandModel.metrics(order_qty) of a normal model: its two expectations
\* come through the memo tables
NormalMetrics ==
    /\ pc \in {"start", "cached"}
    /\ \E std \in CachedStds, order_qty \in CachedQuantities :
        Memoized("metrics",
                 <<DemandModel("Random", "normal",
                               [mean |-> RInt(100), std |-> RInt(std)]),
                   RInt(order_qty)>>,
                 metrics_through(
                     DemandModel("Random", "normal",
                                 [mean |-> RInt(100), std |-> RInt(std)]),
                     RMax(RInt(order_qty), Zero),
                     cached_normal_expected_sales(cache.sales, RInt(100), RInt(std),
                                                  RMax(RInt(order_qty), Zero)),
                     cached_normal_expected_demand(cache.demand, RInt(100), RInt(std))),
                 cached_normal_expected_sales(cache.sales, RInt(100), RInt(std),
                                              RMax(RInt(order_qty), Zero)).entries,
                 cached_normal_expected_demand(cache.demand, RInt(100),
                                               RInt(std)).entries)

NextCache ==
    \/ NormalExpectedSales
    \/ NormalExpectedDemand
    \/ NormalMetrics

\* the memoized functions called in any order and number in one process
SpecCache == Init /\ [][NextCache]_vars

\* ------------------------------------------------------------------------
\* Properties of the demand factory and of DemandModel.cdf

\* the numbers typed into a text area, in order
Typed(text) ==
    LET nums == SelectSeq(text, LAMBDA item : item.kind = "num")
    IN  [i \in DOMAIN nums |-> nums[i].val]

RECURSIVE SumOver(_, _)
\* the sum of f[i] over the indices i in S
SumOver(f, S) ==
    IF S = {} THEN Zero
    ELSE LET i == CHOOSE j \in S : TRUE
         IN  RAdd(f[i], SumOver(f, S \ {i}))

DiscreteBuilt ==
    /\ pc # "start"
    /\ demand_model # None
    /\ demand_model.distribution = "discrete"

\* C8: every discrete DemandModel returned by demand_handler has strictly
\* increasing demands (duplicates of the input merged into one entry),
\* non-negative probabilities that sum to 1, and each support value's
\* probability is the sum of the input probabilities given for that value
\* divided by the total; demands [60,100,100,140] with probabilities
\* [0.2,0.25,0.25,0.3] yield the support {60: 0.2, 100: 0.5, 140: 0.3}.
C8_DiscreteCondensed ==
    DiscreteBuilt =>
        LET demands == demand_model.params.demands
            probabilities == demand_model.params.probabilities
            given_d == Typed(inputs.w.demands_text)
            given_p == Typed(inputs.w.probs_text)
            total == SumOver(given_p, DOMAIN given_p)
        IN  /\ Len(demands) = Len(probabilities)
            /\ \A i, j \in DOMAIN demands : i < j => RLt(demands[i], demands[j])
            /\ {demands[i] : i \in DOMAIN demands} = {given_d[i] : i \in DOMAIN given_d}
            /\ \A i \in DOMAIN probabilities : RLe(Zero, probabilities[i])
            /\ SumOver(probabilities, DOMAIN probabilities) = One
            /\ \A i \in DOMAIN demands :
                 RMul(probabilities[i], total)
                   = SumOver(given_p, {j \in DOMAIN given_d : given_d[j] = demands[i]})
            /\ (/\ given_d = <<RInt(60), RInt(100), RInt(100), RInt(140)>>
                /\ given_p = <<Frac(1, 5), Frac(1, 4), Frac(1, 4), Frac(3, 10)>>)
               => /\ demands = <<RInt(60), RInt(100), RInt(140)>>
                  /\ probabilities = <<Frac(1, 5), Frac(1, 2), Frac(3, 10)>>

C8_Witness ==
    /\ DiscreteBuilt
    /\ Typed(inputs.w.demands_text) = <<RInt(60), RInt(100), RInt(100), RInt(140)>>
    /\ Typed(inputs.w.probs_text) = <<Frac(1, 5), Frac(1, 4), Frac(1, 4), Frac(3, 10)>>
    /\ demand_model.params.demands = <<RInt(60), RInt(100), RInt(140)>>
    /\ demand_model.params.probabilities = <<Frac(1, 5), Frac(1, 2), Frac(3, 10)>>

\* the largest value of the support of a deterministic, uniform or discrete
\* model
MaxSupport(self) ==
    IF self.distribution = "deterministic" THEN self.params.demand
    ELSE IF self.distribution = "uniform" THEN self.params.high
    ELSE self.params.demands[Len(self.params.demands)]

\* C10: for every distribution variant, zero-spread normal and uniform
\* models included, cdf is non-decreasing in x, cdf(0) >= 0, and cdf at the
\* maximum of the support (deterministic: the fixed demand; uniform: high;
\* discrete: the largest demand value) equals 1.
C10_CdfMonotoneOneAtMaxSupport ==
    Called("cdf") =>
        LET x == call.args[1]
        IN  /\ \A y \in ProbePoints :
                 x <= y => RLe(call.ret, cdf(demand_model, RInt(y)))
            /\ (x = 0 => RLe(Zero, call.ret))
            /\ (/\ demand_model.distribution # "normal"
                /\ RInt(x) = MaxSupport(demand_model))
               => call.ret = One

\* ------------------------------------------------------------------------
\* Properties of the operations of DemandModel

\* the model is a point mass: deterministic, normal with std <= EPS, or
\* uniform with high - low <= EPS
PointMass(self) ==
    \/ self.distribution = "deterministic"
    \/ self.distribution = "normal" /\ LeEPS(self.params.std)
    \/ self.distribution = "uniform" /\ LeEPS(RSub(self.params.high, self.params.low))

\* where the mass of a point-mass model lies
PointOf(self) ==
    IF self.distribution = "deterministic" THEN self.params.demand
    ELSE IF self.distribution = "normal" THEN RMax(self.params.mean, Zero)
    ELSE self.params.low

\* x is a support value of the discrete model self that carries probability
Atom(self, x) ==
    \E i \in DOMAIN self.params.demands :
        self.params.demands[i] = x /\ RLt(Zero, self.params.probabilities[i])

\* the cumulative distribution of the model is continuous at x: x is not a
\* point that carries probability mass
ContinuityPoint(self, x) ==
    IF PointMass(self) THEN x # PointOf(self)
    ELSE IF self.distribution = "discrete" THEN ~Atom(self, x)
    ELSE TRUE

\* the cumulative distribution of the model rises at x: the point of a point
\* mass, a discrete value that carries probability, a point of [low, high]
\* of a uniform model, a point x >= 0 of a normal model whose cdf is
\* strictly between 0 and 1 (in floating point the normal cdf is 0 far below
\* the mean and 1 far above it; the tables of this model reach 0 and 1 at
\* four standard deviations)
RisingPoint(self, x) ==
    IF PointMass(self) THEN x = PointOf(self)
    ELSE IF self.distribution = "discrete" THEN Atom(self, x)
    ELSE IF self.distribution = "uniform"
    THEN RLe(self.params.low, x) /\ RLe(x, self.params.high)
    ELSE /\ RLe(Zero, x)
         /\ RLt(Zero, NormCdf(x, self.params.mean, self.params.std))
         /\ RLt(NormCdf(x, self.params.mean, self.params.std), One)

\* C11 as stated: for every distribution variant and every x that is a
\* continuity point of the model's cdf, ppf(cdf(x)) equals x.
C11_RoundTripAtContinuityPoints ==
    Called("ppf_of_cdf") =>
        (ContinuityPoint(demand_model, RInt(call.args[1]))
            => call.ret = RInt(call.args[1]))

\* C11: for every distribution variant, ppf(cdf(x)) equals x at every x
\* where the model's cdf rises (the point of a point mass, a discrete value
\* with positive probability, low <= x <= high of a uniform model, x >= 0
\* with 0 < cdf(x) < 1 of a normal model).
C11_RoundTripWhereCdfRises ==
    Called("ppf_of_cdf") =>
        (RisingPoint(demand_model, RInt(call.args[1]))
            => call.ret = RInt(call.args[1]))

C11_Witness ==
    /\ Called("ppf_of_cdf")
    /\ demand_model.distribution = "uniform"
    /\ demand_model.params = [low |-> RInt(60), high |-> RInt(140)]
    /\ call.args[1] = 130
    /\ call.ret = RInt(130)

\* the operation op of DemandModel applied to the model self
Operation(self, op, args) ==
    IF op = "cdf" THEN cdf(self, RInt(args[1]))
    ELSE IF op = "ppf" THEN ppf(self, args[1])
    ELSE IF op = "ppf_of_cdf" THEN ppf(self, cdf(self, RInt(args[1])))
    ELSE IF op = "metrics" THEN metrics(self, RInt(args[1]))
    ELSE IF op = "expected_of"
    THEN expected_of(self, LAMBDA d : PayoffAt(args[1], d), PayoffKinks(args[1]))
    ELSE IF op = "demand_grid" THEN demand_grid(self, args[1])
    ELSE max_reasonable_demand(self)

\* the deterministic model with the given demand
Deterministic(demand) ==
    DemandModel("Deterministic", "deterministic", [demand |-> demand])

C13_ZeroSpreadNormalIsDeterministic ==
    (/\ pc = "done"
     /\ call.op \in {"metrics", "cdf", "ppf", "expected_of"}
     /\ demand_model.distribution = "normal"
     /\ LeEPS(demand_model.params.std)
     /\ RLe(Zero, demand_model.params.mean))
        => /\ call.ret = Operation(Deterministic(demand_model.params.mean),
                                   call.op, call.args)
           /\ (call.op = "metrics" /\ call.args[1] = 90
               /\ demand_model.params.mean = RInt(100))
              => /\ call.ret.expected_sales = RInt(90)
                 /\ call.ret.expected_leftover = Zero
                 /\ call.ret.expected_unmet = RInt(10)
                 /\ call.ret.service_level = Frac(9, 10)

C13_Witness ==
    /\ Called("metrics")
    /\ call.args[1] = 90
    /\ demand_model.distribution = "normal"
    /\ demand_model.params = [mean |-> RInt(100), std |-> Zero]
    /\ call.ret.expected_sales = RInt(90)
    /\ call.ret.service_level = Frac(9, 10)

\* C14: a uniform model with high - low <= EPS returns from every operation
\* (expected_of, cdf, ppf, metrics with its stockout_probability), for every
\* argument, what the deterministic model with demand = low returns.
C14_ZeroWidthUniformIsDeterministic ==
    (/\ pc = "done"
     /\ call.op \in {"metrics", "cdf", "ppf", "expected_of"}
     /\ demand_model.distribution = "uniform"
     /\ LeEPS(RSub(demand_model.params.high, demand_model.params.low)))
        => call.ret = Operation(Deterministic(demand_model.params.low),
                                call.op, call.args)

\* C15: for a DemandModel whose distribution tag is none of deterministic,
\* normal, uniform, discrete, every operation (expected_of, cdf, ppf,
\* metrics, demand_grid, max_reasonable_demand) signals an error; none
\* returns a default value.
C15_UnknownTagRaises ==
    (pc = "done" /\ demand_model.distribution \notin DistributionTags)
        => call.ret = ValueError

\* the sum of the first i probabilities of the discrete model self
CumulativeMass(self, i) == SumOver(self.params.probabilities, 1..i)

\* C16: for a discrete model and any probability argument q, clamped to
\* [0, 1] first, ppf(q) is the smallest support value d_i whose cumulative
\* probability p_1 + ... + p_i is >= q, and the largest support value when
\* no cumulative sum reaches q.
C16_DiscretePpf ==
    (Called("ppf") /\ demand_model.distribution = "discrete") =>
        LET demands == demand_model.params.demands
            q == Clip(call.args[1], Zero, One)
            reaching == {i \in DOMAIN demands : RLe(q, CumulativeMass(demand_model, i))}
        IN  IF reaching = {} THEN call.ret = demands[Len(demands)]
            ELSE \E i \in reaching :
                    /\ call.ret = demands[i]
                    /\ \A j \in reaching : RLe(demands[i], demands[j])

C16_Witness ==
    /\ Called("ppf")
    /\ demand_model.distribution = "discrete"
    /\ demand_model.params.demands = <<RInt(60), RInt(100), RInt(140)>>
    /\ demand_model.params.probabilities = <<Frac(1, 5), Frac(1, 2), Frac(3, 10)>>
    /\ call.args[1] = Frac(7, 10)
    /\ call.ret = RInt(100)

\* E[min(Q, D)] of a deterministic, uniform or discrete model, in closed
\* form
ExpectedMin(self, Q) ==
    IF self.distribution = "deterministic" THEN RMin(Q, self.params.demand)
    ELSE IF self.distribution = "discrete"
    THEN SumOver([i \in DOMAIN self.params.demands |->
                     RMul(self.params.probabilities[i], RMin(Q, self.params.demands[i]))],
                 DOMAIN self.params.demands)
    ELSE LET low == self.params.low
             high == self.params.high
         IN  IF low = high THEN RMin(Q, low)
             ELSE IF RLe(Q, low) THEN Q
             ELSE IF RLe(high, Q) THEN RDiv(RAdd(low, high), RInt(2))
             ELSE RDiv(RAdd(RDiv(RSub(RMul(Q, Q), RMul(low, low)), RInt(2)),
                            RMul(Q, RSub(high, Q))),
                       RSub(high, low))

\* E[D] of a deterministic, uniform or discrete model, in closed form
ExpectedDemand(self) ==
    IF self.distribution = "deterministic" THEN self.params.demand
    ELSE IF self.distribution = "discrete"
    THEN SumOver([i \in DOMAIN self.params.demands |->
                     RMul(self.params.probabilities[i], self.params.demands[i])],
                 DOMAIN self.params.demands)
    ELSE RDiv(RAdd(self.params.low, self.params.high), RInt(2))

\* C17: for deterministic, uniform and discrete models and every order
\* quantity Q (a negative Q taken as 0), metrics(Q) returns expected_sales =
\* E[min(Q, D)], expected_demand = E[D], expected_leftover = max(Q -
\* expected_sales, 0), expected_unmet = max(expected_demand - expected_sales,
\* 0), service_level = expected_sales / expected_demand clamped to [0, 1]
\* (1 when expected_demand <= EPS), and stockout_probability = 1 - cdf(Q)
\* clamped to [0, 1].
C17_Metrics ==
    (Called("metrics") /\ demand_model.distribution \in {"deterministic", "uniform", "discrete"}) =>
        LET Q == RMax(RInt(call.args[1]), Zero)
            m == call.ret
        IN  /\ m.expected_sales = ExpectedMin(demand_model, Q)
            /\ m.expected_demand = ExpectedDemand(demand_model)
            /\ m.expected_leftover = RMax(RSub(Q, m.expected_sales), Zero)
            /\ m.expected_unmet = RMax(RSub(m.expected_demand, m.expected_sales), Zero)
            /\ m.service_level =
                    IF RLe(m.expected_demand, Zero) THEN One
                    ELSE RMax(Zero, RMin(One, RDiv(m.expected_sales, m.expected_demand)))
            /\ m.stockout_probability =
                    RMax(Zero, RMin(One, RSub(One, cdf(demand_model, Q))))

C17_Witness ==
    /\ Called("metrics")
    /\ call.args[1] = 100
    /\ demand_model.distribution = "uniform"
    /\ demand_model.params = [low |-> RInt(60), high |-> RInt(140)]
    /\ call.ret.expected_sales = RInt(90)
    /\ call.ret.expected_leftover = RInt(10)
    /\ call.ret.expected_unmet = RInt(10)
    /\ call.ret.stockout_probability = Frac(1, 2)

\* ------------------------------------------------------------------------
\* Contract handlers.  A handler reads its widgets (the record w holds their
\* values and whether Calculate was pressed), builds the demand model and
\* returns the result bundle, or None when the request is not evaluated.
\* Next to the bundle the model keeps the handler's demand model and the log
\* of the calls it made, in order: the evaluation functions by name, and
\* st.error / st.warning with the message shown.  Display values are kept
\* as numbers (string formatting is left out) and the figures are
\* represented by the call of graph_functions alone.

Returns(model, bundle, calls) ==
    [demand_model |-> model, result |-> bundle, log |-> calls]

\* a display field showing the text "N/A", or a number
NA == [text |-> "N/A"]
Shown(v) == [value |-> v]

\* risk = {}
NoRisk == [k \in {} |-> Zero]

DemandError == "st.error: Please correct demand inputs before calculation."
PriceError == "st.error: Retail price must be greater than zero."
SalvageError == "st.error: Salvage value cannot exceed retail price."
RatioError == "st.error: Revenue share ratio must be between 0 and 1."
UndefinedWarning == "st.warning: Optimal quantity is not well-defined with the current salvage and price settings."
BuybackWarning == "st.warning: Buyback price exceeds wholesale price. This may create aggressive return incentives."

\* "Salvage Contribution", "Holding Cost Impact", "Shortage & Penalty Impact"
AdjustImpacts(adjust) ==
    [salvage_contribution |-> adjust.salvage,
     holding_cost_impact |-> RNeg(adjust.holding),
     shortage_penalty_impact |-> RNeg(RAdd(adjust.shortage, adjust.penalty))]

\* contract_wholesale from the metrics on: the profit and the result bundle
wholesale_evaluated(demand_model_, m, costs, w) ==
    LET retail_price == w.retail_price
        wholesale_price == w.wholesale_price
        order_qty == w.order_qty
        adjust == inventory_adjustment(m.expected_leftover, m.expected_unmet, costs)
        profit == RAdd(RSub(RMul(retail_price, m.expected_sales),
                            RMul(wholesale_price, order_qty)),
                       adjust.net)
        random == is_random(demand_model_)
        denominator == RSub(retail_price, CostGet(costs, "salvage"))
        defined == random /\ ~LeEPS(denominator)
        critical_fractile ==
            Clip(RDiv(RSub(retail_price, wholesale_price), denominator), Zero, One)
        optimal_q_display ==
            IF defined THEN Shown(ppf(demand_model_, critical_fractile)) ELSE NA
        fractile_display == IF defined THEN Shown(critical_fractile) ELSE NA
        decision ==
            IF random
            THEN [chosen_order_quantity |-> order_qty,
                  service_level |-> m.service_level,
                  expected_leftover |-> m.expected_leftover,
                  optimal_order_quantity |-> optimal_q_display]
            ELSE [chosen_order_quantity |-> order_qty,
                  service_level |-> m.service_level,
                  expected_leftover |-> m.expected_leftover]
        financial ==
            IF random
            THEN [expected_profit |-> profit,
                  expected_sales |-> m.expected_sales,
                  procurement_cost |-> RMul(wholesale_price, order_qty)]
            ELSE [profit |-> profit,
                  expected_sales |-> m.expected_sales,
                  procurement_cost |-> RMul(wholesale_price, order_qty)]
        risk == IF random
                THEN [expected_demand |-> m.expected_demand,
                      stockout_probability |-> m.stockout_probability,
                      target_service_fractile |-> fractile_display]
                ELSE NoRisk
        advanced == [expected_unmet_demand |-> m.expected_unmet]
                    @@ AdjustImpacts(adjust)
    IN  Returns(demand_model_,
                [decision |-> decision, financial |-> financial, risk |-> risk,
                 advanced |-> advanced],
                <<"metrics", "inventory_adjustment">>
                \o (IF ~random THEN <<>>
                    ELSE IF defined THEN <<"ppf">> ELSE <<UndefinedWarning>>)
                \o <<"graph_functions">>)

\* contract_wholesale once demand_handler has run: the Calculate button and
\* the validation of the inputs
wholesale_validated(demand_model_, costs, w) ==
    IF ~w.calculate THEN Returns(demand_model_, None, <<>>)
    ELSE IF demand_model_ = None THEN Returns(demand_model_, None, <<DemandError>>)
    ELSE IF RLe(w.retail_price, Zero) THEN Returns(demand_model_, None, <<PriceError>>)
    ELSE IF RLt(w.retail_price, CostGet(costs, "salvage"))
    THEN Returns(demand_model_, None, <<SalvageError>>)
    ELSE wholesale_evaluated(demand_model_, metrics(demand_model_, w.order_qty), costs, w)

contract_wholesale(demand_type, distribution_type, costs, w) ==
    wholesale_validated(demand_handler(demand_type, distribution_type, w), costs, w)

\* contract_buyback from the metrics on: the profits and the result bundle
buyback_evaluated(demand_model_, m, costs, w) ==
    LET retail_price == w.retail_price
        wholesale_price == w.wholesale_price
        buyback_price == w.buyback_price
        order_qty == w.order_qty
        production_cost == w.production_cost
        adjust == inventory_adjustment(m.expected_leftover, m.expected_unmet, costs)
        retailer_profit ==
            RAdd(RSub(RAdd(RMul(retail_price, m.expected_sales),
                           RMul(buyback_price, m.expected_leftover)),
                      RMul(wholesale_price, order_qty)),
                 adjust.net)
        manufacturer_profit == RSub(RMul(wholesale_price, order_qty),
                                    RMul(buyback_price, m.expected_leftover))
        total_profit == RAdd(RSub(RMul(retail_price, m.expected_sales),
                                  RMul(production_cost, order_qty)),
                             adjust.net)
        denominator_retailer == RSub(retail_price, buyback_price)
        denominator_system == RSub(retail_price, CostGet(costs, "salvage"))
        retailer_cf == Clip(RDiv(RSub(retail_price, wholesale_price),
                                 denominator_retailer), Zero, One)
        system_cf == Clip(RDiv(RSub(retail_price, production_cost),
                               denominator_system), Zero, One)
        gap == RAbs(RSub(retailer_cf, system_cf))
        coordination ==
            IF ~LeEPS(denominator_retailer) /\ ~LeEPS(denominator_system)
            THEN IF RLe(gap, Frac(3, 100)) THEN "Coordinated"
                 ELSE IF RLe(gap, Frac(10, 100)) THEN "Partially Coordinated"
                 ELSE "Not Coordinated"
            ELSE "Indeterminate"
        decision == [order_quantity |-> order_qty,
                     coordination_indicator |-> coordination,
                     expected_leftover |-> m.expected_leftover,
                     service_level |-> m.service_level]
        financial == [retailer_profit |-> retailer_profit,
                      manufacturer_profit |-> manufacturer_profit,
                      total_supply_chain_profit |-> total_profit]
        risk == IF is_random(demand_model_)
                THEN [expected_demand |-> m.expected_demand,
                      stockout_probability |-> m.stockout_probability,
                      expected_unmet_demand |-> m.expected_unmet]
                ELSE NoRisk
    IN  Returns(demand_model_,
                [decision |-> decision, financial |-> financial, risk |-> risk,
                 advanced |-> AdjustImpacts(adjust)],
                (IF RLt(wholesale_price, buyback_price)
                 THEN <<BuybackWarning>> ELSE <<>>)
                \o <<"metrics", "inventory_adjustment", "graph_functions">>)

\* contract_buyback once demand_handler has run: the Calculate button and
\* the validation of the inputs
buyback_validated(demand_model_, costs, w) ==
    IF ~w.calculate THEN Returns(demand_model_, None, <<>>)
    ELSE IF demand_model_ = None THEN Returns(demand_model_, None, <<DemandError>>)
    ELSE IF RLe(w.retail_price, Zero) THEN Returns(demand_model_, None, <<PriceError>>)
    ELSE buyback_evaluated(demand_model_, metrics(demand_model_, w.order_qty), costs, w)

contract_buyback(demand_type, distribution_type, costs, w) ==
    buyback_validated(demand_handler(demand_type, distribution_type, w), costs, w)

\* contract_revenue_sharing from the metrics on: the profits and the result
\* bundle
revenue_sharing_evaluated(demand_model_, m, costs, w) ==
    LET retail_price == w.retail_price
        wholesale_price == w.wholesale_price
        alpha == w.alpha
        order_qty == w.order_qty
        adjust == inventory_adjustment(m.expected_leftover, m.expected_unmet, costs)
        retailer_profit ==
            RAdd(RSub(RMul(RMul(RSub(One, alpha), retail_price), m.expected_sales),
                      RMul(wholesale_price, order_qty)),
                 adjust.net)
        supplier_profit == RAdd(RMul(RMul(alpha, retail_price), m.expected_sales),
                                RMul(wholesale_price, order_qty))
        total_profit == RAdd(retailer_profit, supplier_profit)
        decision == [order_quantity |-> order_qty,
                     revenue_share_ratio |-> alpha,
                     service_level |-> m.service_level,
                     expected_leftover |-> m.expected_leftover]
        financial == [retailer_profit |-> retailer_profit,
                      supplier_profit |-> supplier_profit,
                      total_profit |-> total_profit]
        risk == IF is_random(demand_model_)
                THEN [expected_demand |-> m.expected_demand,
                      stockout_probability |-> m.stockout_probability,
                      expected_unmet_demand |-> m.expected_unmet]
                ELSE NoRisk
    IN  Returns(demand_model_,
                [decision |-> decision, financial |-> financial, risk |-> risk,
                 advanced |-> AdjustImpacts(adjust)],
                <<"metrics", "inventory_adjustment", "graph_functions">>)

\* contract_revenue_sharing once demand_handler has run: the Calculate
\* button and the validation of the inputs
revenue_sharing_validated(demand_model_, costs, w) ==
    IF ~w.calculate THEN Returns(demand_model_, None, <<>>)
    ELSE IF demand_model_ = None THEN Returns(demand_model_, None, <<DemandError>>)
    ELSE IF RLe(w.retail_price, Zero) THEN Returns(demand_model_, None, <<PriceError>>)
    ELSE IF ~(RLe(Zero, w.alpha) /\ RLe(w.alpha, One))
    THEN Returns(demand_model_, None, <<RatioError>>)
    ELSE revenue_sharing_evaluated(demand_model_, metrics(demand_model_, w.order_qty), costs, w)

contract_revenue_sharing(demand_type, distribution_type, costs, w) ==
    revenue_sharing_validated(demand_handler(demand_type, distribution_type, w), costs, w)

\* contract_option from the outcome of the cost evaluator on: the result
\* bundle
option_evaluated(demand_model_, outcome, w) ==
    LET option_qty == w.option_qty
        strike == w.strike
        premium == w.premium
        spot == w.spot
        random == is_random(demand_model_)
        risk == IF random
                THEN [expected_demand |-> outcome.expected_demand,
                      prob_demand_above_option_qty |->
                          RSub(One, cdf(demand_model_, option_qty)),
                      expected_unhedged_volume |-> outcome.expected_unhedged]
                ELSE NoRisk
        should_exercise ==
            IF RLt(Frac(1, 2), outcome.should_exercise) THEN "YES" ELSE "NO"
        savings == RSub(outcome.spot_only_cost, outcome.total_cost)
        decision == [should_exercise |-> should_exercise,
                     quantity_exercised |-> outcome.exercised_qty,
                     break_even_spot_price |-> RAdd(strike, premium)]
        financial == [total_cost |-> outcome.total_cost,
                      pure_spot_strategy_cost |-> outcome.spot_only_cost,
                      cost_advantage_vs_spot |-> savings]
        advanced == [exercise_trigger_price |-> strike,
                     total_premium_paid |-> RMul(option_qty, premium),
                     current_spot_relative_to_trigger |->
                         IF RLt(strike, spot) THEN "Above Trigger"
                         ELSE "At/Below Trigger"]
    IN  Returns(demand_model_,
                [decision |-> decision, financial |-> financial, risk |-> risk,
                 advanced |-> advanced,
                 summary_notes |-> <<"Inventory holding, salvage, shortage, and penalty toggles are not applied to option costs in this model.">>],
                (IF random THEN <<"option_cost_expected", "cdf">>
                 ELSE <<"option_cost_deterministic">>)
                \o <<"graph_functions">>)

\* contract_option once demand_handler has run: the Calculate button, the
\* validation, and the cost evaluator of the demand type
option_validated(demand_model_, w) ==
    IF ~w.calculate THEN Returns(demand_model_, None, <<>>)
    ELSE IF demand_model_ = None THEN Returns(demand_model_, None, <<DemandError>>)
    ELSE option_evaluated(
             demand_model_,
             IF is_random(demand_model_)
             THEN option_cost_expected(demand_model_, w.option_qty, w.strike,
                                       w.premium, w.spot)
             ELSE option_cost_deterministic(demand_model_.params.demand, w.option_qty,
                                            w.strike, w.premium, w.spot),
             w)

\* contract_option that adds the holding rate to the premium
contract_option_with_holding(demand_type, distribution_type, costs, w) ==
    option_validated(demand_handler(demand_type, distribution_type, w),
                     [w EXCEPT !.premium = RAdd(w.premium, CostGet(costs, "holding"))])

contract_option(demand_type, distribution_type, costs, w) ==
    option_validated(demand_handler(demand_type, distribution_type, w), w)

\* contract_quantity_flexibility from the outcome of the cost evaluator on:
\* the result bundle
quantity_flexibility_evaluated(demand_model_, outcome, costs) ==
    LET random == is_random(demand_model_)
        risk == IF random
                THEN [expected_demand |-> outcome.expected_demand,
                      prob_demand_above_upper_band |->
                          RSub(One, cdf(demand_model_, outcome.upper)),
                      prob_demand_below_lower_band |->
                          cdf(demand_model_, outcome.lower)]
                ELSE NoRisk
        bounds == [lower_flex_bound |-> outcome.lower,
                   upper_flex_bound |-> outcome.upper,
                   service_level |-> outcome.service_level]
        decision == IF random
                    THEN [expected_final_order |-> outcome.final_order] @@ bounds
                    ELSE [final_order_quantity |-> outcome.final_order] @@ bounds
        financial == [total_procurement_cost |-> outcome.procurement_cost,
                      total_cost |-> outcome.total_cost,
                      unmet_demand |-> outcome.unmet,
                      overstock |-> outcome.overstock]
        advanced ==
            [holding_cost_impact |->
                 RMul(RNeg(CostGet(costs, "holding")), outcome.overstock),
             shortage_penalty_impact |->
                 RMul(RNeg(RAdd(CostGet(costs, "shortage"), CostGet(costs, "penalty"))),
                      outcome.unmet),
             salvage_offset |-> RMul(CostGet(costs, "salvage"), outcome.overstock)]
    IN  Returns(demand_model_,
                [decision |-> decision, financial |-> financial, risk |-> risk,
                 advanced |-> advanced],
                (IF random THEN <<"quantity_flex_expected", "cdf", "cdf">>
                 ELSE <<"quantity_flex_deterministic">>)
                \o <<"graph_functions">>)

\* contract_quantity_flexibility once demand_handler has run: the Calculate
\* button, the validation, and the cost evaluator of the demand type
quantity_flexibility_validated(demand_model_, costs, w) ==
    IF ~w.calculate THEN Returns(demand_model_, None, <<>>)
    ELSE IF demand_model_ = None THEN Returns(demand_model_, None, <<DemandError>>)
    ELSE quantity_flexibility_evaluated(
             demand_model_,
             IF is_random(demand_model_)
             THEN quantity_flex_expected(demand_model_, w.initial_commitment,
                                         w.adjustment_pct, w.wholesale_price, costs)
             ELSE quantity_flex_deterministic(demand_model_.params.demand,
                                              w.initial_commitment, w.adjustment_pct,
                                              w.wholesale_price, costs),
             costs)

contract_quantity_flexibility(demand_type, distribution_type, costs, w) ==
    quantity_flexibility_validated(demand_handler(demand_type, distribution_type, w), costs, w)

\* ------------------------------------------------------------------------
\* One request of the application: build_sidebar, the selected contract's
\* handler, and what main keeps of it.

\* the cost dictionary of build_sidebar: all four keys, each rate 0 unless
\* its checkbox is ticked and a rate >= 0 entered
SidebarCosts ==
    {[k \in CostKeys |-> 0],
     [salvage |-> 10, holding |-> 2, shortage |-> 5, penalty |-> 3],
     [salvage |-> 150, holding |-> 0, shortage |-> 0, penalty |-> 0],
     [salvage |-> 200, holding |-> 0, shortage |-> 0, penalty |-> 0]}

\* one run of main with the given contract selected: the widgets of the
\* handler are added to the demand widgets
Request(contract_type, inp, costs, widgets, handled) ==
    /\ inputs' = [contract_type |-> contract_type,
                  demand_type |-> inp.demand_type,
                  distribution_type |-> inp.distribution_type,
                  costs |-> costs,
                  w |-> widgets @@ inp.w]
    /\ demand_model' = handled.demand_model
    /\ result' = handled.result
    /\ log' = handled.log
    /\ pc' = "done"
    /\ UNCHANGED <<call, cache>>

ContractWholesale ==
    /\ pc = "start"
    /\ \E inp \in DemandInputs, costs \in SidebarCosts, calculate \in BOOLEAN,
          p \in {Zero, Frac(1, 2), RInt(150)}, w \in {0, 90}, q \in {0, 100} :
        LET widgets == [retail_price |-> p, wholesale_price |-> RInt(w),
                        order_qty |-> RInt(q), calculate |-> calculate]
        IN  Request("Wholesale Price Contract", inp, costs, widgets,
                    contract_wholesale(inp.demand_type, inp.distribution_type,
                                       costs, widgets @@ inp.w))

ContractBuyback ==
    /\ pc = "start"
    /\ \E inp \in DemandInputs, costs \in SidebarCosts, calculate \in BOOLEAN,
          p \in {0, 150}, b \in {40, 120, 150}, c \in {0, 60, 95} :
        LET widgets == [retail_price |-> RInt(p), wholesale_price |-> RInt(95),
                        buyback_price |-> RInt(b), order_qty |-> RInt(100),
                        production_cost |-> RInt(c), calculate |-> calculate]
        IN  Request("Buyback Contract", inp, costs, widgets,
                    contract_buyback(inp.demand_type, inp.distribution_type,
                                     costs, widgets @@ inp.w))

ContractRevenueSharing ==
    /\ pc = "start"
    /\ \E inp \in DemandInputs, costs \in SidebarCosts, calculate \in BOOLEAN,
          p \in {0, 160}, alpha \in Alphas :
        LET widgets == [retail_price |-> RInt(p), wholesale_price |-> RInt(80),
                        alpha |-> alpha, order_qty |-> RInt(100),
                        calculate |-> calculate]
        IN  Request("Revenue Sharing Contract", inp, costs, widgets,
                    contract_revenue_sharing(inp.demand_type, inp.distribution_type,
                                             costs, widgets @@ inp.w))

ContractOption ==
    /\ pc = "start"
    /\ \E inp \in DemandInputs, costs \in SidebarCosts, calculate \in BOOLEAN,
          spot \in {95, 110} :
        LET widgets == [option_qty |-> RInt(100), strike |-> RInt(95),
                        premium |-> RInt(12), spot |-> RInt(spot),
                        calculate |-> calculate]
        IN  Request("Option Contract", inp, costs, widgets,
                    contract_option(inp.demand_type, inp.distribution_type,
                                    costs, widgets @@ inp.w))

ContractQuantityFlexibility ==
    /\ pc = "start"
    /\ \E inp \in DemandInputs, costs \in SidebarCosts, calculate \in BOOLEAN,
          adj \in {20, 100} :
        LET widgets == [initial_commitment |-> RInt(100),
                        adjustment_pct |-> RInt(adj),
                        wholesale_price |-> RInt(92), calculate |-> calculate]
        IN  Request("Quantity Flexibility Contract", inp, costs, widgets,
                    contract_quantity_flexibility(inp.demand_type,
                                                  inp.distribution_type,
                                                  costs, widgets @@ inp.w))

Next ==
    \/ ContractWholesale
    \/ ContractBuyback
    \/ ContractRevenueSharing
    \/ ContractOption
    \/ ContractQuantityFlexibility

\* the application: one request through main
Spec == Init /\ [][Next]_vars

\* ------------------------------------------------------------------------
\* Validation in the handlers

\* the evaluation functions a handler can call
Computations ==
    {"metrics", "inventory_adjustment", "ppf", "cdf", "option_cost_expected",
     "option_cost_deterministic", "quantity_flex_expected",
     "quantity_flex_deterministic", "graph_functions"}

Requested == pc = "done" /\ inputs # None /\ inputs.w.calculate

\* the request's retail price is <= 0, in a contract that has one
NonPositivePrice ==
    /\ inputs.contract_type \in {"Wholesale Price Contract", "Buyback Contract",
                                 "Revenue Sharing Contract"}
    /\ RLe(inputs.w.retail_price, Zero)

\* the request's revenue share ratio is outside [0, 1]
RatioOutOfRange ==
    /\ inputs.contract_type = "Revenue Sharing Contract"
    /\ ~(RLe(Zero, inputs.w.alpha) /\ RLe(inputs.w.alpha, One))

\* the uniform bounds have high < low
UniformReversed ==
    /\ inputs.distribution_type = "Uniform Distribution"
    /\ RLt(inputs.w.high, inputs.w.low)

\* the discrete input is empty, has mismatched lengths, a negative demand,
\* a negative probability, or probabilities whose sum differs from 1 by more
\* than tolerance
MalformedDiscrete(tolerance) ==
    /\ inputs.distribution_type = "Discrete Distribution"
    /\ \A i \in DOMAIN inputs.w.demands_text : inputs.w.demands_text[i].kind # "word"
    /\ \A i \in DOMAIN inputs.w.probs_text : inputs.w.probs_text[i].kind # "word"
    /\ LET given_d == Typed(inputs.w.demands_text)
           given_p == Typed(inputs.w.probs_text)
       IN  \/ given_d = <<>>
           \/ given_p = <<>>
           \/ Len(given_d) # Len(given_p)
           \/ \E i \in DOMAIN given_d : RLt(given_d[i], Zero)
           \/ \E i \in DOMAIN given_p : RLt(given_p[i], Zero)
           \/ RLt(tolerance, RAbs(RSub(SumOver(given_p, DOMAIN given_p), One)))

\* nothing was built, returned or computed for the request
FailedClosed(demand_invalid) ==
    /\ demand_invalid => demand_model = None
    /\ result = None
    /\ \A i \in DOMAIN log : log[i] \notin Computations

\* C9: validation fails closed: for every contract evaluator, if the retail
\* price is <= 0 (wholesale, buyback, revenue sharing), the revenue share
\* ratio is outside [0, 1], the discrete input is malformed (empty,
\* mismatched lengths, a negative demand value, a negative probability,
\* probabilities not summing to 1 within 1e-4), or the uniform bounds have
\* high < low, then the demand factory returns no model (for the demand
\* conditions), the evaluator returns no result, and no metrics or profit
\* computation is performed for that request.
C9_ValidationFailsClosed ==
    Requested =>
        LET demand_invalid == UniformReversed \/ MalformedDiscrete(Frac(1, 10000))
        IN  (NonPositivePrice \/ RatioOutOfRange \/ demand_invalid)
                => FailedClosed(demand_invalid)

\* Validation fails closed when "not summing to 1" is taken with the
\* tolerance of np.isclose as called, atol + rtol * 1.0.
FailsClosedAtCodeTolerance ==
    Requested =>
        LET demand_invalid ==
                UniformReversed \/ MalformedDiscrete(RAdd(Frac(1, 10000), RTol))
        IN  (NonPositivePrice \/ RatioOutOfRange \/ demand_invalid)
                => FailedClosed(demand_invalid)

\* each listed condition occurs in some request and is failed closed
FailsClosedPriceReached ==
    Requested /\ demand_model # None /\ NonPositivePrice /\ result = None
FailsClosedUniformReached ==
    Requested /\ UniformReversed /\ result = None /\ demand_model = None
FailsClosedDiscreteReached ==
    Requested /\ MalformedDiscrete(RAdd(Frac(1, 10000), RTol)) /\ result = None

\* ------------------------------------------------------------------------
\* Properties of the contract handlers

\* the request ran the handler of the given contract to a result bundle
Evaluated(contract_type) ==
    Requested /\ inputs.contract_type = contract_type /\ result # None

\* the request reached the evaluation of the wholesale contract with random
\* demand: Calculate pressed, a demand model built, retail price > 0
WholesaleRandom ==
    /\ Requested
    /\ inputs.contract_type = "Wholesale Price Contract"
    /\ demand_model # None
    /\ demand_model.mode = "Random"
    /\ RLt(Zero, inputs.w.retail_price)

\* C18: in the wholesale evaluator with random demand, when p - salvage >
\* EPS the reported optimal order quantity is ppf(f), f = (p - w) / (p -
\* salvage) clamped to [0, 1]; whenever p <= salvage the optimal quantity is
\* reported as not well-defined (an N/A field plus a warning) and the
\* evaluation still returns a result bundle.
C18_WholesaleOptimalQuantity ==
    WholesaleRandom =>
        LET price == inputs.w.retail_price
            salvage == RInt(inputs.costs.salvage)
            f == RMax(Zero, RMin(One, RDiv(RSub(price, inputs.w.wholesale_price),
                                           RSub(price, salvage))))
        IN  /\ result # None
            /\ RLt(salvage, price)
                 => result.decision.optimal_order_quantity = Shown(ppf(demand_model, f))
            /\ RLe(price, salvage)
                 => /\ result.decision.optimal_order_quantity = NA
                    /\ \E i \in DOMAIN log : log[i] = UndefinedWarning

\* the part of C18 the handler keeps: p > salvage gives ppf(f), p = salvage
\* gives N/A with the warning and a result bundle
WholesaleOptimalQuantityUpToSalvage ==
    (WholesaleRandom /\ RLe(RInt(inputs.costs.salvage), inputs.w.retail_price)) =>
        LET price == inputs.w.retail_price
            salvage == RInt(inputs.costs.salvage)
            f == RMax(Zero, RMin(One, RDiv(RSub(price, inputs.w.wholesale_price),
                                           RSub(price, salvage))))
        IN  /\ result # None
            /\ RLt(salvage, price)
                 => result.decision.optimal_order_quantity = Shown(ppf(demand_model, f))
            /\ price = salvage
                 => /\ result.decision.optimal_order_quantity = NA
                    /\ \E i \in DOMAIN log : log[i] = UndefinedWarning

\* C19: in the buyback evaluator the coordination indicator follows gap =
\* |(p - w)/(p - b) - (p - c)/(p - salvage)|: "Coordinated" iff gap <= 0.03,
\* "Partially Coordinated" iff 0.03 < gap <= 0.10, "Not Coordinated" iff gap
\* > 0.10; when p - b <= EPS or p - salvage <= EPS the indicator is
\* "Indeterminate" and the evaluation still returns its profit results.
C19_BuybackCoordination ==
    Evaluated("Buyback Contract") =>
        LET price == inputs.w.retail_price
            den_retailer == RSub(price, inputs.w.buyback_price)
            den_system == RSub(price, RInt(inputs.costs.salvage))
            gap == RAbs(RSub(RDiv(RSub(price, inputs.w.wholesale_price), den_retailer),
                             RDiv(RSub(price, inputs.w.production_cost), den_system)))
            indicator == result.decision.coordination_indicator
        IN  IF RLe(den_retailer, Zero) \/ RLe(den_system, Zero)
            THEN /\ indicator = "Indeterminate"
                 /\ DOMAIN result.financial
                      = {"retailer_profit", "manufacturer_profit",
                         "total_supply_chain_profit"}
            ELSE /\ indicator = "Coordinated" <=> RLe(gap, Frac(3, 100))
                 /\ indicator = "Partially Coordinated"
                      <=> (RLt(Frac(3, 100), gap) /\ RLe(gap, Frac(10, 100)))
                 /\ indicator = "Not Coordinated" <=> RLt(Frac(10, 100), gap)

\* C19 holds of every request whose two fractiles lie in [0, 1]
BuybackCoordinationOfFractiles ==
    (/\ Evaluated("Buyback Contract")
     /\ RLe(inputs.w.buyback_price, inputs.w.wholesale_price)
     /\ RLe(inputs.w.wholesale_price, inputs.w.retail_price)
     /\ RLe(RInt(inputs.costs.salvage), inputs.w.production_cost)
     /\ RLe(inputs.w.production_cost, inputs.w.retail_price))
        => C19_BuybackCoordination

\* C20: option contract results do not depend on the cost mapping: with the
\* same demand, option_qty, strike, premium and spot, every cost mapping
\* gives the same decision, financial and risk fields of contract_option
\* (option_cost_deterministic and option_cost_expected take no cost mapping).
C20_OptionIgnoresCosts ==
    Evaluated("Option Contract") =>
        \A costs \in SidebarCosts :
            LET other == contract_option(inputs.demand_type, inputs.distribution_type,
                                         costs, inputs.w).result
            IN  /\ other # None
                /\ other.decision = result.decision
                /\ other.financial = result.financial
                /\ other.risk = result.risk

C20_Witness ==
    /\ Evaluated("Option Contract")
    /\ inputs.costs = [salvage |-> 10, holding |-> 2, shortage |-> 5, penalty |-> 3]
    /\ inputs.distribution_type = "Normal Distribution"
    /\ inputs.w.std = RInt(20)
    /\ inputs.w.spot = RInt(110)
    /\ result.decision.should_exercise = "YES"

\* ------------------------------------------------------------------------
\* Properties of the display grid

\* the sample points are in non-decreasing order
NonDecreasing(points) ==
    \A i \in DOMAIN points : \A j \in DOMAIN points :
        i <= j => RLe(points[i], points[j])

\* the n sample points start at low and end at high
Spanning(points, n, low, high) ==
    /\ Len(points) = n
    /\ points[1] = low
    /\ points[n] = high

\* C21: demand_grid(n) returns a non-decreasing sequence of exactly n sample
\* points spanning [0, 2*demand] for a deterministic model, [low, high] for
\* a uniform model with low < high, and for a discrete model the sorted
\* distinct support values themselves, or [0, 2*value] when the support has
\* a single value.
C21_DemandGrid ==
    Called("demand_grid") =>
        LET n == call.args[1]
            points == call.ret
            params == demand_model.params
        IN  /\ Len(points) = n
            /\ NonDecreasing(points)
            /\ demand_model.distribution = "deterministic"
                 => Spanning(points, n, Zero, RMul(RInt(2), params.demand))
            /\ (demand_model.distribution = "uniform" /\ RLt(params.low, params.high))
                 => Spanning(points, n, params.low, params.high)
            /\ demand_model.distribution = "discrete"
                 => IF Len(params.demands) = 1
                    THEN Spanning(points, n, Zero, RMul(RInt(2), params.demands[1]))
                    ELSE points = params.demands

\* what demand_grid does return: upper ends no smaller than 1, and for a
\* discrete model with several support values those values, however many
\* points were asked
DemandGridUpperAtLeastOne ==
    Called("demand_grid") =>
        LET n == call.args[1]
            points == call.ret
            params == demand_model.params
        IN  /\ NonDecreasing(points)
            /\ demand_model.distribution = "deterministic"
                 => Spanning(points, n, Zero, RMax(One, RMul(RInt(2), params.demand)))
            /\ (demand_model.distribution = "uniform" /\ RLt(params.low, params.high))
                 => Spanning(points, n, params.low, params.high)
            /\ demand_model.distribution = "discrete"
                 => IF Len(params.demands) = 1
                    THEN Spanning(points, n, Zero,
                                  RMax(One, RMul(RInt(2), params.demands[1])))
                    ELSE points = params.demands

\* ------------------------------------------------------------------------
\* Properties of a request's model under sequences of calls

\* C22: a DemandModel is never mutated after construction: every operation
\* on it (expected_of, cdf, ppf, metrics, demand_grid,
\* max_reasonable_demand) and every evaluator that receives it leaves its
\* mode, distribution and params unchanged, after any sequence of calls.
C22_ModelNeverMutated ==
    [][demand_model # None => demand_model' = demand_model]_vars

\* after calls on a discrete model, the model is the one the factory built
C22_Witness ==
    /\ pc = "done"
    /\ call.op = "quantity_flex_expected"
    /\ demand_model # None
    /\ demand_model.distribution = "discrete"
    /\ Len(demand_model.params.demands) = 2
    /\ demand_model = demand_handler(inputs.demand_type, inputs.distribution_type,
                                     inputs.w)

\* ------------------------------------------------------------------------
\* Properties of the memo tables

\* C23: the memoization of normal_expected_sales and normal_expected_demand
\* is transparent: after any sequence of calls, including ones that fill a
\* table and evict entries, a call returns the value the uncached
\* computation returns for its arguments (directly and through metrics),
\* and every stored value is the value of its key.
C23_MemoizationTransparent ==
    /\ (pc = "cached" /\ call.op = "normal_expected_sales")
         => call.ret = normal_expected_sales(call.args[1], call.args[2], call.args[3])
    /\ (pc = "cached" /\ call.op = "normal_expected_demand")
         => call.ret = normal_expected_demand(call.args[1], call.args[2])
    /\ (pc = "cached" /\ call.op = "metrics")
         => call.ret = metrics(call.args[1], call.args[2])
    /\ Len(cache.sales) <= SalesCacheSize
    /\ Len(cache.demand) <= DemandCacheSize

\* a hit of normal_expected_sales while both tables are full, returning a
\* value strictly between 0 and the order quantity
C23_Witness ==
    /\ pc = "cached"
    /\ call.op = "normal_expected_sales"
    /\ call.hit
    /\ Len(cache.sales) = SalesCacheSize
    /\ Len(cache.demand) = DemandCacheSize
    /\ call.args[2] = RInt(20)
    /\ RLt(Zero, call.ret)
    /\ RLt(call.ret, call.args[3])

\* ------------------------------------------------------------------------
\* Properties of the expected evaluators

\* the expectation of fn over the demand of a deterministic or discrete
\* model: the probability-weighted sum of fn over the support
Weighted(self, fn(_)) ==
    IF self.distribution = "deterministic" THEN fn(self.params.demand)
    ELSE SumOver([i \in DOMAIN self.params.demands |->
                     RMul(self.params.probabilities[i], fn(self.params.demands[i]))],
                 DOMAIN self.params.demands)

\* the band [lower, upper] of a commitment Q0 with adjustment range adj
BandOf(Q0, adj) ==
    {RMax(Zero, RMul(Q0, RSub(One, RDiv(adj, RInt(100))))),
     RMul(Q0, RAdd(One, RDiv(adj, RInt(100))))}

\* the expectation over the demand of self of the total cost of
\* quantity_flex_deterministic
TrueExpectedTotalCost(self, Q0, adj, w, costs) ==
    IF self.distribution \in {"deterministic", "discrete"}
    THEN Weighted(self,
                  LAMBDA d : quantity_flex_deterministic(d, Q0, adj, w, costs).total_cost)
    ELSE expected_of(self,
                     LAMBDA d : quantity_flex_deterministic(d, Q0, adj, w, costs).total_cost,
                     BandOf(Q0, adj))

\* the models demand_handler builds from the inputs of the model
BuiltModels ==
    {demand_handler(inp.demand_type, inp.distribution_type, inp.w) : inp \in DemandInputs}
    \ {None}

\* C24 as stated: the total_cost of quantity_flex_expected is not the true
\* expected total cost: there are demand models (e.g. discrete) and
\* parameters for which it differs from the expectation over demand of the
\* total_cost of quantity_flex_deterministic.  The models are those the
\* factory can build and the parameters those of the evaluator's calls.
C24_TotalCostDiffersFromExpectation ==
    pc = "start" =>
        \E self \in BuiltModels, Q0 \in {0, 100}, adj \in {0, 20, 100},
           costs \in EvaluatorCosts :
            quantity_flex_expected(self, RInt(Q0), RInt(adj), RInt(92), costs).total_cost
                # TrueExpectedTotalCost(self, RInt(Q0), RInt(adj), RInt(92), costs)

\* C24: quantity_flex_expected combines its three separate expectations
\* linearly, total_cost = w*E[final_order] + holding*E[overstock] +
\* (shortage + penalty)*E[unmet] - salvage*E[overstock], and this total_cost
\* equals the expectation over demand of the total_cost of
\* quantity_flex_deterministic, for every demand model and all parameters.
C24_TotalCostIsExpectation ==
    Called("quantity_flex_expected") =>
        LET Q0 == RInt(call.args[1])
            adj == RInt(call.args[2])
            w == RInt(call.args[3])
            costs == call.args[4]
            ret == call.ret
        IN  /\ ret.total_cost =
                 RSub(RAdd(RAdd(RMul(w, ret.final_order),
                                RMul(CostGet(costs, "holding"), ret.overstock)),
                           RMul(RAdd(CostGet(costs, "shortage"),
                                     CostGet(costs, "penalty")),
                                ret.unmet)),
                      RMul(CostGet(costs, "salvage"), ret.overstock))
            /\ ret.total_cost = TrueExpectedTotalCost(demand_model, Q0, adj, w, costs)

\* a discrete model with support below, inside and above the band [80, 120]
\* and every cost rate positive
C24_Witness ==
    /\ Called("quantity_flex_expected")
    /\ demand_model.distribution = "discrete"
    /\ demand_model.params.demands = <<RInt(60), RInt(100), RInt(140)>>
    /\ call.args[1] = 100
    /\ call.args[2] = 20
    /\ call.args[4] = [salvage |-> 10, holding |-> 2, shortage |-> 5, penalty |-> 3]
    /\ RLt(Zero, call.ret.unmet)
    /\ RLt(Zero, call.ret.overstock)
    /\ call.ret.total_cost
         = TrueExpectedTotalCost(demand_model, RInt(100), RInt(20), RInt(92),
                                 call.args[4])

\* ------------------------------------------------------------------------
\* Properties of the acceptance of discrete inputs

\* demand_handler ran on a discrete input
DiscreteHandled ==
    /\ pc # "start"
    /\ inputs # None
    /\ inputs.distribution_type = "Discrete Distribution"

\* the raw sum of the probabilities typed
RawSum == LET given_p == Typed(inputs.w.probs_text)
          IN  SumOver(given_p, DOMAIN given_p)

\* the discrete input is well formed but for the sum of its probabilities:
\* numeric items only, both lists non-empty and of one length, no negative
\* demand and no negative probability
WellFormedButSum ==
    /\ \A i \in DOMAIN inputs.w.demands_text : inputs.w.demands_text[i].kind # "word"
    /\ \A i \in DOMAIN inputs.w.probs_text : inputs.w.probs_text[i].kind # "word"
    /\ LET given_d == Typed(inputs.w.demands_text)
           given_p == Typed(inputs.w.probs_text)
       IN  /\ given_d # <<>>
           /\ Len(given_d) = Len(given_p)
           /\ \A i \in DOMAIN given_d : RLe(Zero, given_d[i])
           /\ \A i \in DOMAIN given_p : RLe(Zero, given_p[i])

\* the factory accepts a well-formed input iff its raw sum is within
\* tolerance of 1
AcceptsWithin(tolerance) ==
    DiscreteHandled =>
        /\ RLt(tolerance, RAbs(RSub(RawSum, One))) => demand_model = None
        /\ (WellFormedButSum /\ RLe(RAbs(RSub(RawSum, One)), tolerance))
             => demand_model # None

\* C25: the discrete demand factory accepts a probability list only if its
\* raw sum is within 1e-4 of 1.0: every input whose probabilities sum to a
\* value differing from 1.0 by more than 1e-4 is rejected (no model
\* returned), and every otherwise well-formed input whose sum is within 1e-4
\* of 1.0 is accepted.
C25_AcceptsWithinTolerance == AcceptsWithin(Frac(1, 10000))

\* the acceptance test of the code: within atol + rtol * 1.0 = 1.1e-4 of 1
AcceptsWithinCodeTolerance == AcceptsWithin(RAdd(Frac(1, 10000), RTol))

\* ------------------------------------------------------------------------
\* Expected evaluators against deterministic evaluators

\* an expected evaluator returned for a deterministic model
CalledOnDeterministic(op) ==
    /\ Called(op)
    /\ demand_model # None
    /\ demand_model.distribution = "deterministic"

\* the two results agree on the given fields
AgreeOn(fields, expected, deterministic) ==
    \A field \in fields : expected[field] = deterministic[field]

\* C26: expected and deterministic evaluators agree on a deterministic
\* demand model: for demand d >= 0 and non-negative parameters,
\* wholesale_profit_expected, buyback_profit_expected and
\* revenue_sharing_profit_expected return the values of their deterministic
\* counterparts at d, and option_cost_expected and quantity_flex_expected
\* agree with option_cost_deterministic and quantity_flex_deterministic on
\* every field the two results share.
C26_ExpectedAgreesOnDeterministic ==
    /\ CalledOnDeterministic("wholesale_profit_expected") =>
         call.ret = wholesale_profit_deterministic(
                        RInt(call.args[1]), demand_model.params.demand,
                        RInt(call.args[2]), RInt(call.args[3]), call.args[4])
    /\ CalledOnDeterministic("buyback_profit_expected") =>
         call.ret = buyback_profit_deterministic(
                        RInt(call.args[1]), demand_model.params.demand,
                        RInt(call.args[2]), RInt(call.args[3]), RInt(call.args[4]),
                        RInt(call.args[5]), call.args[6])
    /\ CalledOnDeterministic("revenue_sharing_profit_expected") =>
         call.ret = revenue_sharing_profit_deterministic(
                        RInt(call.args[1]), demand_model.params.demand,
                        RInt(call.args[2]), RInt(call.args[3]), call.args[4],
                        call.args[5])
    /\ CalledOnDeterministic("option_cost_expected") =>
         AgreeOn({"should_exercise", "exercised_qty", "total_cost", "spot_only_cost"},
                 call.ret,
                 option_cost_deterministic(
                     demand_model.params.demand, RInt(call.args[1]),
                     RInt(call.args[2]), RInt(call.args[3]), RInt(call.args[4])))
    /\ CalledOnDeterministic("quantity_flex_expected") =>
         AgreeOn({"lower", "upper", "final_order", "unmet", "overstock",
                  "procurement_cost", "total_cost", "service_level"},
                 call.ret,
                 quantity_flex_deterministic(
                     demand_model.params.demand, RInt(call.args[1]),
                     RInt(call.args[2]), RInt(call.args[3]), call.args[4]))

\* the option evaluator on a deterministic demand of 60 below the option
\* quantity 100, exercised at spot 110 > strike 95
C26_Witness ==
    /\ CalledOnDeterministic("option_cost_expected")
    /\ demand_model.params.demand = RInt(60)
    /\ call.args = <<100, 95, 12, 110>>
    /\ call.ret.exercised_qty = RInt(60)
    /\ call.ret.total_cost = RInt(100 * 12 + 60 * 95)

\* ------------------------------------------------------------------------
\* Properties of the break-even spot price

\* option_cost_deterministic returned for a spot price of strike + premium,
\* premium > 0
AtBreakEvenSpot ==
    /\ Called("option_cost_deterministic")
    /\ call.args[4] > 0
    /\ call.args[5] = call.args[3] + call.args[4]

\* C27: the reported break-even spot price strike + premium is the spot
\* price at which the option strategy costs the same as pure spot
\* purchasing: for every demand >= 0, option_qty >= 0, strike >= 0 and
\* premium > 0, option_cost_deterministic at spot = strike + premium returns
\* total_cost equal to spot_only_cost (cost advantage 0).
C27_BreakEvenSpot ==
    AtBreakEvenSpot => call.ret.total_cost = call.ret.spot_only_cost

\* at spot = strike + premium the option strategy costs the premium of every
\* option not exercised more than pure spot purchasing: the two costs are
\* equal iff demand >= option_qty
BreakEvenWhenDemandCoversOptions ==
    AtBreakEvenSpot =>
        RSub(call.ret.total_cost, call.ret.spot_only_cost)
            = RInt(IMax(call.args[2] - call.args[1], 0) * call.args[4])

\* ------------------------------------------------------------------------
\* Expected evaluators on discrete models

\* an operation or evaluator returned for a discrete model
CalledOnDiscrete(op) ==
    /\ Called(op)
    /\ demand_model # None
    /\ demand_model.distribution = "discrete"

\* C28: for a discrete DemandModel with support d_1..d_k and probabilities
\* p_1..p_k, any Q >= 0 and any cost mapping, the expected evaluators equal
\* the probability-weighted sum of the deterministic evaluators:
\* wholesale_profit_expected = sum_i p_i * wholesale_profit_deterministic(Q,
\* d_i, ...), likewise component-wise for the buyback and revenue-sharing
\* triples; max(Q - expected_sales, 0) and max(expected_demand -
\* expected_sales, 0) of metrics are E[leftover] and E[unmet].
C28_ExpectedIsWeightedSum ==
    /\ CalledOnDiscrete("wholesale_profit_expected") =>
         call.ret = Weighted(demand_model,
                        LAMBDA d : wholesale_profit_deterministic(
                                       RInt(call.args[1]), d, RInt(call.args[2]),
                                       RInt(call.args[3]), call.args[4]))
    /\ CalledOnDiscrete("buyback_profit_expected") =>
         \A k \in 1..3 :
            call.ret[k] = Weighted(demand_model,
                              LAMBDA d : buyback_profit_deterministic(
                                             RInt(call.args[1]), d, RInt(call.args[2]),
                                             RInt(call.args[3]), RInt(call.args[4]),
                                             RInt(call.args[5]), call.args[6])[k])
    /\ CalledOnDiscrete("revenue_sharing_profit_expected") =>
         \A k \in 1..3 :
            call.ret[k] = Weighted(demand_model,
                              LAMBDA d : revenue_sharing_profit_deterministic(
                                             RInt(call.args[1]), d, RInt(call.args[2]),
                                             RInt(call.args[3]), call.args[4],
                                             call.args[5])[k])
    /\ (CalledOnDiscrete("metrics") /\ call.args[1] >= 0) =>
         /\ call.ret.expected_leftover
              = Weighted(demand_model,
                         LAMBDA d : inventory_stats(RInt(call.args[1]), d).leftover)
         /\ call.ret.expected_unmet
              = Weighted(demand_model,
                         LAMBDA d : inventory_stats(RInt(call.args[1]), d).unmet)

\* the buyback evaluator on the support 60, 100, 140 with Q = 100 inside
\* it, a buyback price and every cost rate positive
C28_Witness ==
    /\ CalledOnDiscrete("buyback_profit_expected")
    /\ demand_model.params.demands = <<RInt(60), RInt(100), RInt(140)>>
    /\ demand_model.params.probabilities = <<Frac(1, 5), Frac(1, 2), Frac(3, 10)>>
    /\ call.args = <<100, 150, 95, 40, 60,
                     [salvage |-> 10, holding |-> 2, shortage |-> 5, penalty |-> 3]>>
    /\ call.ret[1] = Weighted(demand_model,
                         LAMBDA d : buyback_profit_deterministic(
                                        RInt(100), d, RInt(150), RInt(95), RInt(40),
                                        RInt(60), call.args[6])[1])

\* ------------------------------------------------------------------------
\* Properties of the buyback profits

\* retailer + manufacturer = p*sales + net_adj = total + c*Q, which is total
\* iff c*Q = 0
SumOfParties(profits, Q, p, c, sales, net_adj) ==
    /\ RAdd(profits[1], profits[2]) = RAdd(RMul(p, sales), net_adj)
    /\ RAdd(profits[1], profits[2]) = RAdd(profits[3], RMul(c, Q))
    /\ (RAdd(profits[1], profits[2]) = profits[3]) <=> (RMul(c, Q) = Zero)

\* SumOfParties for buyback_profit_expected, m = metrics(Q)
SumOfPartiesExpected(profits, m, Q, p, c, costs) ==
    SumOfParties(profits, Q, p, c, m.expected_sales,
                 inventory_adjustment(m.expected_leftover, m.expected_unmet, costs).net)

\* SumOfParties for buyback_profit_deterministic, s = inventory_stats(Q, d)
SumOfPartiesDeterministic(profits, s, Q, p, c, costs) ==
    SumOfParties(profits, Q, p, c, s.sales,
                 inventory_adjustment(s.leftover, s.unmet, costs).net)

\* C29: in both buyback evaluators the reported total supply-chain profit
\* is not the sum of the two parties' profits: for all inputs, retailer +
\* manufacturer = p*sales + net_adj = total + c*Q, so retailer +
\* manufacturer equals total only when c*Q = 0 (the manufacturer profit
\* never deducts the production cost c, and w and b cancel in the sum).
C29_BuybackTotalIsNotTheSum ==
    /\ Called("buyback_profit_expected") =>
         SumOfPartiesExpected(call.ret, metrics(demand_model, RInt(call.args[1])),
                              RInt(call.args[1]), RInt(call.args[2]),
                              RInt(call.args[5]), call.args[6])
    /\ Called("buyback_profit_deterministic") =>
         SumOfPartiesDeterministic(call.ret,
                                   inventory_stats(RInt(call.args[1]), call.args[2]),
                                   RInt(call.args[1]), RInt(call.args[3]),
                                   RInt(call.args[6]), call.args[7])

\* the expected evaluator on the uniform model 60..140 with Q = 100 and c =
\* 60: the parties' profits add up to 6000 more than the reported total
C29_Witness ==
    /\ Called("buyback_profit_expected")
    /\ demand_model.distribution = "uniform"
    /\ demand_model.params = [low |-> RInt(60), high |-> RInt(140)]
    /\ call.args[1] = 100
    /\ call.args[4] = 40
    /\ call.args[5] = 60
    /\ RSub(RAdd(call.ret[1], call.ret[2]), call.ret[3]) = RInt(6000)

\* ------------------------------------------------------------------------
\* The round trip on the support of a discrete model

\* ppf(cdf(x)) returned for a support value x of a discrete model
RoundTripOnSupport ==
    /\ Called("ppf_of_cdf")
    /\ demand_model.distribution = "discrete"
    /\ \E i \in DOMAIN demand_model.params.demands :
          demand_model.params.demands[i] = RInt(call.args[1])

\* C30: for every discrete DemandModel the demand factory can return
\* (zero-probability entries are admitted by validation) and every support
\* value d_i, ppf(cdf(d_i)) = d_i.
C30_RoundTripOnSupport ==
    RoundTripOnSupport => call.ret = RInt(call.args[1])

\* the round trip returns the support value wherever that value carries
\* probability
RoundTripOnPositiveSupport ==
    (RoundTripOnSupport /\ Atom(demand_model, RInt(call.args[1])))
        => call.ret = RInt(call.args[1])

====
